---- MODULE Spec2Model ----
(***************************************************************************)
(* Travel Memory Journal: the rule-based tag extractor                     *)
(* (src/src/ai_journaling_assistant/tag_extraction.py) over the built-in   *)
(* taxonomy (config.py), the callers that share one extractor, the copies  *)
(* of the taxonomy handed out by get_tag_categories, the JSON storage with *)
(* its backups (storage.py, models.py) and the memory service              *)
(* (services.py).                                                          *)
(*                                                                         *)
(* Text is a TLA+ string; a character is a string of length 1.  A Python   *)
(* dict is a record [keys, items]: keys is the insertion order, items the  *)
(* mapping.  An Optional value is a sequence of length 0 (None) or 1.      *)
(***************************************************************************)
EXTENDS Integers, Sequences, FiniteSets, TLC

VARIABLES
    categories,             \* TagExtractor.categories
    keyword_to_categories,  \* TagExtractor._keyword_to_categories
    description,            \* the caller's description argument
    op,                     \* the call made last: "none", "extract_tags", "extract_tags_by_category"
    filter,                 \* the categories argument of that call (Optional list)
    tags,                   \* the list extract_tags returned
    categorized,            \* the dict extract_tags_by_category returned
    frames,                 \* the activation record of each caller sharing the extractor
    heap,                   \* the taxonomy objects get_tag_categories has returned
    held,                   \* the object each holder's variable refers to (0: none)
    edits,                  \* what each holder did to its copy since it got it
    returned,               \* the structure the last get_tag_categories call returned (Optional)
    max_backups,            \* StorageService.max_backups
    files,                  \* the storage directory: path -> file
    second,                 \* the clock: the current second
    instant,                \* the clock: the moments passed (orders mtimes and timestamps)
    local                   \* the activation record of each process using the storage

extractor_vars == <<categories, keyword_to_categories>>

call_vars == <<description, op, filter, tags, categorized>>

copy_vars == <<heap, held, edits, returned>>

storage_vars == <<max_backups, files, second, instant, local>>

vars == <<categories, keyword_to_categories, description, op, filter, tags, categorized,
          frames, heap, held, edits, returned, max_backups, files, second, instant, local>>

(***************************************************************************)
(* Bounds of the explored inputs.                                          *)
(***************************************************************************)
MaxWords == 2

\* documents written by the explored runs
MaxSaves == 3

\* seconds the clock advances by
MaxSeconds == 1

\* the largest max_backups a StorageService is created with
MaxRetained == 2

(***************************************************************************)
(* Characters.  The alphabet is ASCII; "$" stands for U+00DF (LATIN SMALL  *)
(* LETTER SHARP S), a letter whose upper-case form is the two characters   *)
(* "SS" and which str.lower() leaves alone.                                *)
(***************************************************************************)
SharpS == "$"

LowerOf ==
    "A" :> "a" @@ "B" :> "b" @@ "C" :> "c" @@ "D" :> "d" @@ "E" :> "e" @@
    "F" :> "f" @@ "G" :> "g" @@ "H" :> "h" @@ "I" :> "i" @@ "J" :> "j" @@
    "K" :> "k" @@ "L" :> "l" @@ "M" :> "m" @@ "N" :> "n" @@ "O" :> "o" @@
    "P" :> "p" @@ "Q" :> "q" @@ "R" :> "r" @@ "S" :> "s" @@ "T" :> "t" @@
    "U" :> "u" @@ "V" :> "v" @@ "W" :> "w" @@ "X" :> "x" @@ "Y" :> "y" @@
    "Z" :> "z"

Digits == {"0", "1", "2", "3", "4", "5", "6", "7", "8", "9"}

\* \w of a str pattern: alphanumeric characters and the underscore
WordChars ==
    DOMAIN LowerOf \cup {LowerOf[c] : c \in DOMAIN LowerOf} \cup {SharpS} \cup Digits \cup {"_"}

\* \s of a str pattern, and the separators of str.split() / str.strip()
SpaceChars == {" ", "\t", "\n", "\r", "\f"}

IsWordChar(c) == c \in WordChars

IsSpaceChar(c) == c \in SpaceChars

\* text[i-1] of Python (1-based here); "" outside the text
CharAt(text, i) == IF i < 1 \/ i > Len(text) THEN "" ELSE SubSeq(text, i, i)

RECURSIVE Concat(_)
Concat(pieces) ==
    IF pieces = <<>> THEN "" ELSE Head(pieces) \o Concat(Tail(pieces))

\* str.lower()
str_lower(text) ==
    Concat([i \in 1..Len(text) |->
        LET c == SubSeq(text, i, i) IN IF c \in DOMAIN LowerOf THEN LowerOf[c] ELSE c])

\* needle in hay
IsSubstring(needle, hay) ==
    \E i \in 1..(Len(hay) - Len(needle) + 1) : SubSeq(hay, i, i + Len(needle) - 1) = needle

\* str.endswith()
str_endswith(text, suffix) ==
    /\ Len(text) >= Len(suffix)
    /\ SubSeq(text, Len(text) - Len(suffix) + 1, Len(text)) = suffix

\* str.strip()
RECURSIVE str_lstrip(_)
str_lstrip(text) ==
    IF text # "" /\ IsSpaceChar(SubSeq(text, 1, 1))
    THEN str_lstrip(SubSeq(text, 2, Len(text)))
    ELSE text

RECURSIVE str_rstrip(_)
str_rstrip(text) ==
    IF text # "" /\ IsSpaceChar(SubSeq(text, Len(text), Len(text)))
    THEN str_rstrip(SubSeq(text, 1, Len(text) - 1))
    ELSE text

str_strip(text) == str_rstrip(str_lstrip(text))

\* re.sub(r'\s+', ' ', text): every maximal run of whitespace becomes one space
re_sub_spaces(text) ==
    Concat([i \in 1..Len(text) |->
        LET c == SubSeq(text, i, i) IN
        IF ~IsSpaceChar(c) THEN c
        ELSE IF IsSpaceChar(CharAt(text, i - 1)) THEN "" ELSE " "])

\* ' '.join(text.split()): the words of the text joined by single spaces
join_split(text) == str_strip(re_sub_spaces(text))

\* variant: punctuation is deleted instead of being replaced by a space
re_sub_punctuation_deleting(text) ==
    Concat([i \in 1..Len(text) |->
        LET c == SubSeq(text, i, i) IN
        IF IsWordChar(c) \/ IsSpaceChar(c) THEN c ELSE ""])

\* re.sub(r'[^\w\s]', ' ', text)
re_sub_punctuation(text) ==
    Concat([i \in 1..Len(text) |->
        LET c == SubSeq(text, i, i) IN
        IF IsWordChar(c) \/ IsSpaceChar(c) THEN c ELSE " "])

(***************************************************************************)
(* Python dicts (insertion ordered).                                       *)
(***************************************************************************)
EmptyDict == [keys |-> <<>>, items |-> <<>>]

DictHas(d, k) == k \in DOMAIN d.items

DictSet(d, k, v) ==
    [keys |-> IF DictHas(d, k) THEN d.keys ELSE Append(d.keys, k),
     items |-> IF DictHas(d, k) THEN [d.items EXCEPT ![k] = v]
               ELSE d.items @@ (k :> v)]

SeqContains(s, x) == \E i \in 1..Len(s) : s[i] = x

(***************************************************************************)
(* config.get_tag_categories                                               *)
(***************************************************************************)
get_tag_categories ==
    [keys |-> <<"food", "culture", "outdoor", "transport", "accommodation",
                "shopping", "entertainment", "experience">>,
     items |-> [
        food |-> <<
            "restaurant", "cafe", "coffee", "wine", "beer", "tasting",
            "market", "street food", "cuisine", "cooking", "bakery",
            "bar", "pub", "brewery", "vineyard", "dining", "lunch",
            "dinner", "breakfast", "snack", "local food", "specialty"
        >>,
        culture |-> <<
            "museum", "temple", "church", "art", "architecture", "history",
            "monument", "palace", "castle", "gallery", "exhibition",
            "cultural", "heritage", "traditional", "festival", "ceremony",
            "performance", "theater", "music", "dance", "sculpture",
            "painting", "historic"
        >>,
        outdoor |-> <<
            "hiking", "beach", "mountain", "nature", "park", "forest",
            "lake", "river", "ocean", "trail", "camping", "climbing",
            "swimming", "surfing", "kayaking", "cycling", "walking",
            "trekking", "wildlife", "scenic", "viewpoint", "sunrise",
            "sunset", "photography"
        >>,
        transport |-> <<
            "flight", "train", "bus", "taxi", "metro", "subway",
            "ferry", "boat", "car", "rental", "uber", "lyft",
            "walking", "cycling", "scooter", "rickshaw", "tram",
            "cable car", "funicular", "helicopter", "transfer"
        >>,
        accommodation |-> <<
            "hotel", "hostel", "airbnb", "resort", "guesthouse",
            "bed and breakfast", "camping", "glamping", "motel",
            "inn", "lodge", "villa", "apartment", "homestay",
            "boutique", "luxury", "budget", "booking", "check-in",
            "room", "suite"
        >>,
        shopping |-> <<
            "market", "mall", "store", "shop", "boutique", "souvenir",
            "gift", "local", "craft", "handmade", "antique",
            "vintage", "fashion", "clothing", "jewelry", "art",
            "books", "spices", "textiles", "bargaining", "purchase"
        >>,
        entertainment |-> <<
            "nightlife", "club", "bar", "live music", "concert",
            "show", "casino", "games", "sports", "event",
            "party", "dancing", "karaoke", "comedy", "cinema",
            "theater", "amusement park", "theme park", "festival"
        >>,
        experience |-> <<
            "amazing", "beautiful", "incredible", "stunning", "awesome",
            "wonderful", "fantastic", "memorable", "unique", "special",
            "relaxing", "exciting", "adventurous", "peaceful", "romantic",
            "fun", "interesting", "inspiring", "breathtaking", "unforgettable"
        >>
     ]]

(***************************************************************************)
(* TagExtractor.__init__: the reverse lookup keyword -> categories         *)
(***************************************************************************)
\* the category appended once for every occurrence of the keyword in its list
category_entries(cats, category, keyword) ==
    [i \in 1..Len(SelectSeq(cats.items[category], LAMBDA k : k = keyword)) |-> category]

RECURSIVE keyword_categories(_, _, _)
keyword_categories(cats, names, keyword) ==
    IF names = <<>> THEN <<>>
    ELSE category_entries(cats, Head(names), keyword)
         \o keyword_categories(cats, Tail(names), keyword)

\* variant: the entry is overwritten instead of appended to (the last category wins)
build_keyword_to_categories_overwriting(cats) ==
    LET keywords == UNION {{cats.items[c][i] : i \in 1..Len(cats.items[c])} : c \in DOMAIN cats.items}
    IN [keyword \in keywords |->
            LET all == keyword_categories(cats, cats.keys, keyword) IN <<all[Len(all)]>>]

\* the dict is only ever indexed and tested for membership: a mapping
build_keyword_to_categories(cats) ==
    LET keywords == UNION {{cats.items[c][i] : i \in 1..Len(cats.items[c])} : c \in DOMAIN cats.items}
    IN [keyword \in keywords |-> keyword_categories(cats, cats.keys, keyword)]

(***************************************************************************)
(* TagExtractor._preprocess_text                                           *)
(***************************************************************************)
preprocess_text(text) ==
    LET lowered == str_lower(text)
        joined == join_split(lowered)
        unpunctuated == re_sub_punctuation(joined)
        normalized == re_sub_spaces(unpunctuated)
    IN str_strip(normalized)

(***************************************************************************)
(* re.search(r'\b' + re.escape(literal) + r'\b', text)                     *)
(*                                                                         *)
(* \b holds at position i (between text[i] and text[i+1], 0..Len) when     *)
(* exactly one of the two neighbours is a word character.  The pattern     *)
(* matches when the literal fills the span between two such positions;     *)
(* word_spans(text) is the set of these spans, computed once per text.     *)
(***************************************************************************)
word_boundaries(text) ==
    {i \in 0..Len(text) : IsWordChar(CharAt(text, i)) # IsWordChar(CharAt(text, i + 1))}

word_spans(text) ==
    LET b == word_boundaries(text)
    IN {SubSeq(text, p[1] + 1, p[2]) : p \in {q \in b \X b : q[1] <= q[2]}}

\* variant: the pattern without its \b anchors
re_search_word_unanchored(literal, spans) ==
    \E span \in spans : IsSubstring(literal, span)

re_search_word(literal, spans) == literal \in spans

(***************************************************************************)
(* TagExtractor._find_keywords                                             *)
(***************************************************************************)
\* variant: the '-ing' branch without base + 'ed'
variations_without_ed(keyword_lower) ==
    <<keyword_lower \o "s", keyword_lower \o "es">>
    \o (IF str_endswith(keyword_lower, "y")
        THEN <<SubSeq(keyword_lower, 1, Len(keyword_lower) - 1) \o "ies">>
        ELSE <<>>)
    \o (IF str_endswith(keyword_lower, "ing")
        THEN LET base == SubSeq(keyword_lower, 1, Len(keyword_lower) - 3)
             IN <<base, base \o "s">>
        ELSE <<keyword_lower \o "ing", keyword_lower \o "ed">>)

\* the variations list built for a single-word keyword, in the code's order
variations(keyword_lower) ==
    <<keyword_lower \o "s", keyword_lower \o "es">>
    \o (IF str_endswith(keyword_lower, "y")
        THEN <<SubSeq(keyword_lower, 1, Len(keyword_lower) - 1) \o "ies">>
        ELSE <<>>)
    \o (IF str_endswith(keyword_lower, "ing")
        THEN LET base == SubSeq(keyword_lower, 1, Len(keyword_lower) - 3)
             IN <<base, base \o "ed", base \o "s">>
        ELSE <<keyword_lower \o "ing", keyword_lower \o "ed">>
             \o (IF Len(keyword_lower) > 2
                    /\ CharAt(keyword_lower, Len(keyword_lower))
                       = CharAt(keyword_lower, Len(keyword_lower) - 1)
                 THEN <<keyword_lower \o "ing">>
                 ELSE <<>>))

\* variant: the variations are tested for keywords of several words too
keyword_found_expanding_all(keyword, spans) ==
    LET keyword_lower == str_lower(keyword)
        vs == variations(keyword_lower)
    IN \/ re_search_word(keyword_lower, spans)
       \/ \E i \in 1..Len(vs) : vs[i] # "" /\ re_search_word(vs[i], spans)

\* the body of the keyword loop: is the keyword appended to found_tags
keyword_found(keyword, spans) ==
    LET keyword_lower == str_lower(keyword)
    IN \/ re_search_word(keyword_lower, spans)
       \/ /\ ~IsSubstring(" ", keyword_lower)
          /\ LET vs == variations(keyword_lower)
             IN \E i \in 1..Len(vs) : vs[i] # "" /\ re_search_word(vs[i], spans)

\* variant: the form that matched is appended instead of the keyword
scan_keywords_appending_match(keywords, spans) ==
    LET found == SelectSeq(keywords, LAMBDA keyword : keyword_found(keyword, spans))
        forms(keyword) == <<str_lower(keyword)>> \o variations(str_lower(keyword))
        matched(keyword) ==
            LET fs == forms(keyword)
            IN fs[CHOOSE i \in 1..Len(fs) :
                    /\ re_search_word(fs[i], spans)
                    /\ \A j \in 1..(i - 1) : ~re_search_word(fs[j], spans)]
    IN [i \in 1..Len(found) |-> matched(found[i])]

\* the keyword loop over one category: the keywords appended, in list order
scan_keywords(keywords, spans) ==
    SelectSeq(keywords, LAMBDA keyword : keyword_found(keyword, spans))

RECURSIVE scan_categories(_, _, _)
scan_categories(cats, categories_to_search, spans) ==
    IF categories_to_search = <<>> THEN <<>>
    ELSE LET category == Head(categories_to_search)
         IN (IF ~DictHas(cats, category) THEN <<>>
             ELSE scan_keywords(cats.items[category], spans))
            \o scan_categories(cats, Tail(categories_to_search), spans)

\* variant: the categories are scanned in alphabetical order of their names
find_keywords_sorted(cats, text, filter_categories) ==
    LET alphabetical == <<"accommodation", "culture", "entertainment", "experience",
                          "food", "outdoor", "shopping", "transport">>
        categories_to_search ==
            IF filter_categories = <<>> \/ filter_categories[1] = <<>>
            THEN SelectSeq(alphabetical, LAMBDA c : DictHas(cats, c))
            ELSE filter_categories[1]
    IN scan_categories(cats, categories_to_search, word_spans(text))

\* filter_categories or self.categories.keys(): None and the empty list are falsy
find_keywords(cats, text, filter_categories) ==
    LET categories_to_search ==
            IF filter_categories = <<>> \/ filter_categories[1] = <<>>
            THEN cats.keys ELSE filter_categories[1]
    IN scan_categories(cats, categories_to_search, word_spans(text))

(***************************************************************************)
(* TagExtractor.extract_tags                                               *)
(***************************************************************************)
RECURSIVE unique_in_order(_, _)
unique_in_order(unique_tags, found_tags) ==
    IF found_tags = <<>> THEN unique_tags
    ELSE unique_in_order(
            IF SeqContains(unique_tags, Head(found_tags)) THEN unique_tags
            ELSE Append(unique_tags, Head(found_tags)),
            Tail(found_tags))

\* variant: the matcher's list is returned as it is
extract_tags_keeping_duplicates(cats, descr, filter_categories) ==
    IF descr = "" \/ str_strip(descr) = "" THEN <<>>
    ELSE find_keywords(cats, preprocess_text(descr), filter_categories)

extract_tags(cats, descr, filter_categories) ==
    IF descr = "" \/ str_strip(descr) = "" THEN <<>>
    ELSE LET processed_text == preprocess_text(descr)
             found_tags == find_keywords(cats, processed_text, filter_categories)
         IN unique_in_order(<<>>, found_tags)

(***************************************************************************)
(* TagExtractor.extract_tags_by_category                                   *)
(***************************************************************************)
RECURSIVE add_to_categories(_, _, _)
add_to_categories(result, tag, tag_categories) ==
    IF tag_categories = <<>> THEN result
    ELSE LET category == Head(tag_categories)
         IN add_to_categories(
                IF SeqContains(result.items[category], tag) THEN result
                ELSE DictSet(result, category, Append(result.items[category], tag)),
                tag, Tail(tag_categories))

RECURSIVE categorize(_, _, _)
categorize(result, all_tags, k2c) ==
    IF all_tags = <<>> THEN result
    ELSE categorize(
            IF Head(all_tags) \in DOMAIN k2c
            THEN add_to_categories(result, Head(all_tags), k2c[Head(all_tags)])
            ELSE result,
            Tail(all_tags), k2c)

\* {k: v for k, v in categorized.items() if v}
RECURSIVE drop_empty(_, _, _)
drop_empty(result, d, names) ==
    IF names = <<>> THEN result
    ELSE drop_empty(
            IF d.items[Head(names)] # <<>>
            THEN DictSet(result, Head(names), d.items[Head(names)]) ELSE result,
            d, Tail(names))

\* variant: the empty categories are not removed
extract_tags_by_category_keeping_empty(cats, k2c, descr) ==
    LET all_tags == extract_tags(cats, descr, <<>>)
        empty == [keys |-> cats.keys, items |-> [c \in DOMAIN cats.items |-> <<>>]]
    IN categorize(empty, all_tags, k2c)

extract_tags_by_category(cats, k2c, descr) ==
    LET all_tags == extract_tags(cats, descr, <<>>)
        empty == [keys |-> cats.keys, items |-> [c \in DOMAIN cats.items |-> <<>>]]
        filled == categorize(empty, all_tags, k2c)
    IN drop_empty(EmptyDict, filled, filled.keys)

(***************************************************************************)
(* The callers' inputs: descriptions of at most MaxWords words from a      *)
(* vocabulary, separated by whitespace or punctuation, and the texts the   *)
(* specification quotes; category filters.                                 *)
(***************************************************************************)
Words == {"art", "Arts", "art_", "bu" \o SharpS, "walked", "parties"}

Separators == {" ", "!"}

RECURSIVE Phrases(_)
Phrases(n) ==
    IF n = 0 THEN {""}
    ELSE LET shorter == Phrases(n - 1)
         IN shorter \cup Words
            \cup {p \o s \o w : p \in shorter \ {""}, s \in Separators, w \in Words}

QuotedTexts ==
    {"the restaurant", "restaurateur", "we walked all day",
     "hiked through the mountains", "Great wine! Amazing art...",
     "   ", " \t\n", "?!...", "no keyword here",
     "Street,\tfood and a check-in", "tried street food", "tried street foods",
     "art from the mall"}

\* every keyword of the built-in taxonomy, as a description of its own
KeywordTexts ==
    UNION {{get_tag_categories.items[c][i] : i \in 1..Len(get_tag_categories.items[c])} :
              c \in DOMAIN get_tag_categories.items}

Descriptions == Phrases(MaxWords) \cup QuotedTexts \cup KeywordTexts

Filters ==
    {<<>>, << <<>> >>, << <<"culture">> >>, << <<"shopping", "food">> >>,
     << <<"transport", "nosuch">> >>}

(***************************************************************************)
(* The callers that share one TagExtractor.  A call runs in steps; the     *)
(* names it binds (description, categories, processed_text, found_tags,    *)
(* unique_tags, result) live in the caller's own activation record.        *)
(***************************************************************************)
Callers == {"caller1", "caller2"}

CallerDescriptions == {"Great wine! Amazing art...", "we walked all day", " \t\n"}

CallerFilters == {<<>>, << <<"culture">> >>}

IdleFrame ==
    [pc |-> "idle", method |-> "none", description |-> "", categories |-> <<>>,
     processed_text |-> "", found_tags |-> <<>>, unique_tags |-> <<>>,
     result |-> EmptyDict]

\* variant: the name is an attribute of the shared extractor, one for all callers
assign_shared(fr, caller, name, value) ==
    [c \in DOMAIN fr |-> [fr[c] EXCEPT ![name] = value]]

\* name = value, in the activation record of the caller
assign_local(fr, caller, name, value) ==
    [fr EXCEPT ![caller] = [@ EXCEPT ![name] = value]]

goto(fr, caller, label) == [fr EXCEPT ![caller].pc = label]

(***************************************************************************)
(* The holders of taxonomy copies.  The heap holds the objects that        *)
(* get_tag_categories returned and that some holder still refers to.       *)
(***************************************************************************)
Holders == {"extractor", "holder1", "holder2"}

Editors == Holders \ {"extractor"}

FreshRef(objects) ==
    CHOOSE n \in 1..(Cardinality(DOMAIN objects) + 1) :
        n \notin DOMAIN objects /\ \A m \in 1..(n - 1) : m \in DOMAIN objects

Allocate(objects, value) ==
    [n \in DOMAIN objects \cup {FreshRef(objects)} |->
        IF n \in DOMAIN objects THEN objects[n] ELSE value]

\* del d[k]
DictDel(d, k) ==
    [keys |-> SelectSeq(d.keys, LAMBDA x : x # k),
     items |-> [x \in DOMAIN d.items \ {k} |-> d.items[x]]]

\* variant: the table is built once and the same object is handed to every caller
get_tag_categories_call_shared(objects) ==
    IF DOMAIN objects = {} THEN [objects |-> Allocate(objects, get_tag_categories), ref |-> 1]
    ELSE [objects |-> objects, ref |-> CHOOSE n \in DOMAIN objects : TRUE]

\* a call of get_tag_categories(): the dict literal is evaluated and deep-copied, so
\* the structure returned is a new object equal to the definition
get_tag_categories_call(objects) ==
    [objects |-> Allocate(objects, get_tag_categories), ref |-> FreshRef(objects)]

\* the objects some holder refers to (the others are garbage)
Reachable(objects, refs) ==
    [n \in DOMAIN objects \cap {refs[h] : h \in DOMAIN refs} |-> objects[n]]

(***************************************************************************)
(* Clock values and their text forms.  A datetime is [second, instant]:    *)
(* the clock's second and a counter that orders the moments inside and     *)
(* across seconds; a date is a day of July 2024.                           *)
(***************************************************************************)
DigitChars == <<"0", "1", "2", "3", "4", "5", "6", "7", "8", "9">>

TwoDigits(n) == DigitChars[(n \div 10) + 1] \o DigitChars[(n % 10) + 1]

DigitValue(c) == CHOOSE d \in 0..9 : DigitChars[d + 1] = c

ParseTwoDigits(s) == DigitValue(SubSeq(s, 1, 1)) * 10 + DigitValue(SubSeq(s, 2, 2))

\* date.isoformat(), as model_dump(mode='json') writes a date
date_isoformat(day) == "2024-07-" \o TwoDigits(day)

date_fromisoformat(s) == ParseTwoDigits(SubSeq(s, 9, 10))

\* datetime.isoformat()
datetime_isoformat(t) ==
    "2024-07-01T00:00:" \o TwoDigits(t.second) \o ".0000" \o TwoDigits(t.instant)

datetime_fromisoformat(s) ==
    [second |-> ParseTwoDigits(SubSeq(s, 18, 19)),
     instant |-> ParseTwoDigits(SubSeq(s, 25, 26))]

\* str(datetime), what json.dump(default=str) writes for a datetime left in the metadata
datetime_str(t) ==
    "2024-07-01 00:00:" \o TwoDigits(t.second) \o ".0000" \o TwoDigits(t.instant)

\* datetime.strftime("%Y%m%d-%H%M%S")
strftime(t) == "20240701-0000" \o TwoDigits(t.second)

(***************************************************************************)
(* models.Memory and models.MemoryCollection                               *)
(***************************************************************************)
\* variant: only the empty string is refused
field_must_not_be_empty_unstripped(v) ==
    IF v = "" THEN <<>> ELSE <<str_strip(v)>>

\* the validators of description and location: None stands for the ValueError
field_must_not_be_empty(v) ==
    IF v = "" \/ str_strip(v) = "" THEN <<>> ELSE <<str_strip(v)>>

\* Memory(id=..., ...): the timestamps default to now; None stands for the ValueError
Memory_new(id, location, date, descr, tag_list, created_at, updated_at, now) ==
    LET loc == field_must_not_be_empty(location)
        des == field_must_not_be_empty(descr)
    IN IF loc = <<>> \/ des = <<>> THEN <<>>
       ELSE << [id |-> id, location |-> loc[1], date |-> date, description |-> des[1],
                tags |-> tag_list,
                created_at |-> IF created_at = <<>> THEN now ELSE created_at[1],
                updated_at |-> IF updated_at = <<>> THEN now ELSE updated_at[1]] >>

\* memory.model_dump(mode='json')
model_dump_json(m) ==
    [id |-> m.id, location |-> m.location, date |-> date_isoformat(m.date),
     description |-> m.description, tags |-> m.tags,
     created_at |-> datetime_isoformat(m.created_at),
     updated_at |-> datetime_isoformat(m.updated_at)]

\* Memory(**item) for an item of the JSON document
Memory_from_json(item, now) ==
    Memory_new(item.id, item.location, date_fromisoformat(item.date), item.description,
               item.tags, <<datetime_fromisoformat(item.created_at)>>,
               <<datetime_fromisoformat(item.updated_at)>>, now)

\* MemoryCollection(memories=..., metadata=...): an absent or empty metadata is created
MemoryCollection_new(memory_list, metadata, now) ==
    [memories |-> memory_list,
     metadata |-> IF metadata = <<>>
                  THEN [version |-> "1.0", created_at |-> datetime_str(now),
                        total_memories |-> Len(memory_list), updated_at |-> <<>>]
                  ELSE [metadata[1] EXCEPT !.total_memories = Len(memory_list)]]

\* variant: the memory is appended, the count in the metadata is left as it was
collection_add_memory_stale_total(collection, m, now) ==
    [memories |-> Append(collection.memories, m),
     metadata |-> [collection.metadata EXCEPT !.updated_at = <<datetime_str(now)>>]]

\* MemoryCollection.add_memory
collection_add_memory(collection, m, now) ==
    [memories |-> Append(collection.memories, m),
     metadata |-> [collection.metadata EXCEPT
                      !.total_memories = Len(collection.memories) + 1,
                      !.updated_at = <<datetime_str(now)>>]]

\* MemoryCollection.get_memory_by_id: the first memory with the id, or None
collection_get_memory_by_id(memory_list, memory_id) ==
    LET hits == SelectSeq(memory_list, LAMBDA m : m.id = memory_id)
    IN IF hits = <<>> THEN <<>> ELSE <<hits[1]>>

(***************************************************************************)
(* The storage directory: a function from path to file; a file is          *)
(* [content, mtime, writers], its content a JSON document (Optional: None  *)
(* is a file that holds no complete document) and its writers the          *)
(* processes that hold it open for writing. A file keeps its writers when  *)
(* it is renamed: a descriptor follows the file, not the path.             *)
(***************************************************************************)
memories_file == "memories.json"

FileExists(fs, path) == path \in DOMAIN fs

FileWrite(fs, path, file) ==
    [p \in DOMAIN fs \cup {path} |-> IF p = path THEN file ELSE fs[p]]

FileUnlink(fs, path) == [p \in DOMAIN fs \ {path} |-> fs[p]]

FileRename(fs, source, target) ==
    IF source = target THEN fs
    ELSE FileUnlink(FileWrite(fs, target, fs[source]), source)

\* variant: the document is written into the file itself
with_suffix_tmp_same(path) == path

\* Path.with_suffix('.tmp')
with_suffix_tmp(path) == SubSeq(path, 1, Len(path) - Len(".json")) \o ".tmp"

\* open(path, 'w') by process p: the file is created, or truncated where it is
open_write(fs, path, p, mtime) ==
    FileWrite(fs, path,
              [content |-> <<>>, mtime |-> mtime,
               writers |-> (IF FileExists(fs, path) THEN fs[path].writers ELSE {})
                              \cup {p}])

\* the end of the with block: the descriptor of p is closed
close_file(fs, p) == [f \in DOMAIN fs |-> [fs[f] EXCEPT !.writers = @ \ {p}]]

\* len(s.encode('utf-8')): "$" stands for a letter of two bytes
utf8_len(s) == Len(s) + Cardinality({i \in 1..Len(s) : SubSeq(s, i, i) = "$"})

Sum(f, n) == LET RECURSIVE upto(_)
                 upto(i) == IF i = 0 THEN 0 ELSE f[i] + upto(i - 1)
             IN upto(n)

\* the bytes of json.dump(data, f, indent=2, ensure_ascii=False, default=str) for a
\* document of save_memories: dates and timestamps have a fixed length
json_size(data) ==
    LET n == Len(data.memories)
        tags_size(t) == IF Len(t) = 0 THEN 0
                        ELSE 6 + 12 * Len(t) + Sum([i \in 1..Len(t) |-> utf8_len(t[i])], Len(t))
        memory_size(m) == 221 + utf8_len(m.id) + utf8_len(m.location)
                              + utf8_len(m.description) + tags_size(m.tags)
    IN 183 + (IF n = 0 THEN 0 ELSE 2)
           + Sum([i \in 1..n |-> memory_size(data.memories[i])], n)

\* a document written at offset 0 over what the file holds: what is longer than the
\* document stays behind it
written_over(old, data) ==
    IF old = <<>> \/ json_size(data[1]) >= json_size(old[1]) THEN data ELSE <<>>

\* the document of p reaches the file p holds open, whatever its path is now; a
\* file with no path left takes it with it
write_through(fs, p, data, mtime) ==
    [f \in DOMAIN fs |->
        IF p \in fs[f].writers
        THEN [fs[f] EXCEPT !.content = written_over(@, data), !.mtime = mtime]
        ELSE fs[f]]

\* json.dump fails part-way: nothing of the document has reached the file, or a
\* part of it has
write_partly(fs, p, mtime) ==
    {fs, [f \in DOMAIN fs |->
             IF p \in fs[f].writers
             THEN [fs[f] EXCEPT !.content = <<>>, !.mtime = mtime]
             ELSE fs[f]]}

backup_file(now) == "backups/memories-" \o strftime(now) \o ".json"

\* backups_dir.glob("memories-*.json")
glob_backups(fs) ==
    {p \in DOMAIN fs :
        /\ Len(p) >= Len("backups/memories-.json")
        /\ SubSeq(p, 1, Len("backups/memories-")) = "backups/memories-"
        /\ str_endswith(p, ".json")}

\* StorageService.load_memories: None stands for the ValueError
load_memories(fs, now) ==
    IF ~FileExists(fs, memories_file) THEN <<MemoryCollection_new(<<>>, <<>>, now)>>
    ELSE IF fs[memories_file].content = <<>> THEN <<>>
    ELSE LET data == fs[memories_file].content[1]
             parsed == [i \in 1..Len(data.memories) |->
                           Memory_from_json(data.memories[i], now)]
         IN IF \E i \in 1..Len(parsed) : parsed[i] = <<>> THEN <<>>
            ELSE <<MemoryCollection_new([i \in 1..Len(parsed) |-> parsed[i][1]],
                                        <<data.metadata>>, now)>>

\* the document save_memories writes
dump_collection(collection, now) ==
    [memories |-> [i \in 1..Len(collection.memories) |->
                      model_dump_json(collection.memories[i])],
     metadata |-> [collection.metadata EXCEPT !.updated_at = <<datetime_isoformat(now)>>]]

\* variant: an existing backup of the same second is left as it is
create_backup_once(fs, now) ==
    IF ~FileExists(fs, memories_file) \/ FileExists(fs, backup_file(now)) THEN fs
    ELSE FileWrite(fs, backup_file(now), [fs[memories_file] EXCEPT !.writers = {}])

\* StorageService._create_backup: shutil.copy2 copies the content and the mtime
create_backup(fs, now) ==
    IF ~FileExists(fs, memories_file) THEN fs
    ELSE FileWrite(fs, backup_file(now), [fs[memories_file] EXCEPT !.writers = {}])

Min(a, b) == IF a < b THEN a ELSE b

\* variant: the sort is ascending, the oldest backups are kept
cleanup_backups_oldest_kept(fs, max) ==
    LET found == glob_backups(fs)
    IN {[p \in DOMAIN fs \ (found \ kept) |-> fs[p]] :
           kept \in {k \in SUBSET found :
                        /\ Cardinality(k) = Min(max, Cardinality(found))
                        /\ \A a \in k, b \in found \ k : fs[a].mtime <= fs[b].mtime}}

\* StorageService._cleanup_backups: the directories it can leave; backups of equal
\* mtime are kept in the order glob lists them, which is the file system's choice
cleanup_backups(fs, max) ==
    LET found == glob_backups(fs)
    IN {[p \in DOMAIN fs \ (found \ kept) |-> fs[p]] :
           kept \in {k \in SUBSET found :
                        /\ Cardinality(k) = Min(max, Cardinality(found))
                        /\ \A a \in k, b \in found \ k : fs[a].mtime >= fs[b].mtime}}

\* the except clauses of save_memories: if temp_file.exists(): temp_file.unlink()
unlink_temp(fs) ==
    IF FileExists(fs, with_suffix_tmp(memories_file))
    THEN FileUnlink(fs, with_suffix_tmp(memories_file)) ELSE fs

(***************************************************************************)
(* services.MemoryService                                                  *)
(***************************************************************************)
\* create_memory_id(): a uuid4 is an id that no memory in use has
create_memory_id(used) ==
    "id" \o DigitChars[1 + CHOOSE n \in 1..9 :
                              /\ ("id" \o DigitChars[n + 1]) \notin used
                              /\ \A m \in 1..(n - 1) : ("id" \o DigitChars[m + 1]) \in used]

\* variant: the extracted tags come first
merge_tags_auto_first(manual, auto_tags) ==
    unique_in_order(<<>>, auto_tags \o
                          (IF manual = <<>> \/ manual[1] = <<>> THEN <<>> ELSE manual[1]))

\* add_memory: manual tags (if any), then the extracted ones, without duplicates
merge_tags(manual, auto_tags) ==
    unique_in_order(<<>>, (IF manual = <<>> \/ manual[1] = <<>> THEN <<>> ELSE manual[1])
                          \o auto_tags)

\* variant: the extracted tags replace the memory's tags
reprocessed_tags_replacing(existing, auto_tags) == unique_in_order(<<>>, auto_tags)

\* variant: the extracted tags come first
reprocessed_tags_auto_first(existing, auto_tags) ==
    unique_in_order(<<>>, auto_tags \o existing)

\* process_memory_tags: list(memory.tags) + auto_tags, without duplicates
reprocessed_tags(existing, auto_tags) == unique_in_order(<<>>, existing \o auto_tags)

\* variant: a memory with exactly min_tags tags is processed too
needs_processing_inclusive(memory, min_tags) == Len(memory.tags) <= min_tags

\* process_all_untagged_memories: if len(memory.tags) < min_tags
needs_processing(memory, min_tags) == Len(memory.tags) < min_tags

\* process_memory_tags up to its call of save_memories: how it goes on ("ValueError":
\* the load raised, "None": no memory has the id, "save"), the updated memory and the
\* collection handed to save_memories
process_memory_tags(fs, cats, memory_id, now) ==
    LET loaded == load_memories(fs, now)
        found == collection_get_memory_by_id(loaded[1].memories, memory_id)
        auto_tags == extract_tags(cats, found[1].description, <<>>)
        memory == [found[1] EXCEPT !.tags = reprocessed_tags(found[1].tags, auto_tags)]
        stored == loaded[1].memories
        first == CHOOSE i \in 1..Len(stored) :
                     /\ stored[i].id = memory_id
                     /\ \A j \in 1..(i - 1) : stored[j].id # memory_id
    IN IF loaded = <<>>
       THEN [outcome |-> "ValueError", memory |-> <<>>, collection |-> <<>>]
       ELSE IF found = <<>>
       THEN [outcome |-> "None", memory |-> <<>>, collection |-> <<>>]
       ELSE [outcome |-> "save", memory |-> <<memory>>,
             collection |-> <<[loaded[1] EXCEPT
                                  !.memories = [stored EXCEPT ![first] = memory]]>>]

\* list.sort(key=lambda m: m.date): stable
RECURSIVE sort_by_date(_)
sort_by_date(memory_list) ==
    IF memory_list = <<>> THEN <<>>
    ELSE LET sorted == sort_by_date(SubSeq(memory_list, 1, Len(memory_list) - 1))
             last == memory_list[Len(memory_list)]
         IN SelectSeq(sorted, LAMBDA m : m.date <= last.date)
            \o <<last>>
            \o SelectSeq(sorted, LAMBDA m : m.date > last.date)

\* MemoryService.list_memories on the stored list: None, [] and 0 are falsy
list_memories(memory_list, limit, tag_filter) ==
    LET sorted == sort_by_date(memory_list)
        filtered ==
            IF tag_filter = <<>> \/ tag_filter[1] = <<>> THEN sorted
            ELSE SelectSeq(sorted, LAMBDA m :
                     \E i \in 1..Len(tag_filter[1]) : SeqContains(m.tags, tag_filter[1][i]))
    IN IF limit = <<>> \/ limit[1] = 0 THEN filtered
       ELSE SubSeq(filtered, 1, Min(limit[1], Len(filtered)))

\* the activation record of a process using the service
IdleLocal ==
    [pc |-> "idle", op |-> "none", outcome |-> "none",
     location |-> "", description |-> "", manual_tags |-> <<>>,
     memory_id |-> "", memory |-> <<>>, limit |-> <<>>, tag_filter |-> <<>>,
     collection |-> <<>>, data |-> <<>>, result |-> <<>>,
     min_tags |-> 0, memories |-> <<>>, processed_count |-> 0, processed |-> <<>>,
     before |-> <<>>, deleted |-> {}]

Processes == {"process1", "process2"}

\* MemoryService(storage_path): max_backups: int = 5
DefaultMaxBackups == 5

(***************************************************************************)
(* Initial values of each component.                                       *)
(***************************************************************************)
ExtractorConstructed ==
    /\ categories = get_tag_categories
    /\ keyword_to_categories = build_keyword_to_categories(get_tag_categories)

NoCall ==
    /\ op = "none"
    /\ filter = <<>>
    /\ tags = <<>>
    /\ categorized = EmptyDict

NoCallers == frames = [c \in Callers |-> IdleFrame]

NoCopies ==
    /\ heap = <<>>
    /\ held = [h \in Holders |-> 0]
    /\ edits = [h \in Holders |-> <<>>]
    /\ returned = <<>>

\* an empty storage directory at second 0, nobody inside an operation
NoStorage ==
    /\ files = <<>>
    /\ second = 0
    /\ instant = 0
    /\ local = [p \in Processes |-> IdleLocal]

(***************************************************************************)
(* The state machine: a caller holding one TagExtractor.                   *)
(***************************************************************************)
Init ==
    /\ ExtractorConstructed
    /\ max_backups = DefaultMaxBackups
    /\ NoStorage
    /\ description \in Descriptions
    /\ NoCall
    /\ NoCallers
    /\ NoCopies

ExtractTags(f) ==
    /\ op' = "extract_tags"
    /\ filter' = f
    /\ tags' = extract_tags(categories, description, f)
    /\ categorized' = EmptyDict
    /\ UNCHANGED <<categories, keyword_to_categories, description, frames, copy_vars, storage_vars>>

ExtractTagsByCategory ==
    /\ op' = "extract_tags_by_category"
    /\ filter' = <<>>
    /\ tags' = <<>>
    /\ categorized' = extract_tags_by_category(categories, keyword_to_categories, description)
    /\ UNCHANGED <<categories, keyword_to_categories, description, frames, copy_vars, storage_vars>>

Next ==
    \/ \E f \in Filters : ExtractTags(f)
    \/ ExtractTagsByCategory

Spec == Init /\ [][Next]_vars

(***************************************************************************)
(* The state machine of the callers sharing the extractor.                 *)
(***************************************************************************)
InitCallers ==
    /\ ExtractorConstructed
    /\ max_backups = DefaultMaxBackups
    /\ NoStorage
    /\ description = ""
    /\ NoCall
    /\ NoCallers
    /\ NoCopies

\* a caller enters extract_tags(d, f) or extract_tags_by_category(d)
Call(c, m, d, f) ==
    /\ frames[c].pc \in {"idle", "returned"}
    /\ m = "extract_tags_by_category" => f = <<>>
    /\ LET entered == [frames EXCEPT ![c] = [IdleFrame EXCEPT !.method = m]]
           bound == assign_local(assign_local(entered, c, "description", d),
                                 c, "categories", f)
       IN frames' = goto(bound, c, "called")
    /\ UNCHANGED <<extractor_vars, call_vars, copy_vars, storage_vars>>

\* if not description or not description.strip(): return []; else _preprocess_text
Preprocess(c) ==
    /\ frames[c].pc = "called"
    /\ LET d == frames[c].description
       IN IF d = "" \/ str_strip(d) = ""
          THEN frames' = goto(assign_local(frames, c, "unique_tags", <<>>), c, "tagged")
          ELSE frames' = goto(assign_local(frames, c, "processed_text", preprocess_text(d)),
                              c, "preprocessed")
    /\ UNCHANGED <<extractor_vars, call_vars, copy_vars, storage_vars>>

FindKeywords(c) ==
    /\ frames[c].pc = "preprocessed"
    /\ frames' = goto(assign_local(frames, c, "found_tags",
                          find_keywords(categories, frames[c].processed_text,
                                        frames[c].categories)),
                      c, "found")
    /\ UNCHANGED <<extractor_vars, call_vars, copy_vars, storage_vars>>

Deduplicate(c) ==
    /\ frames[c].pc = "found"
    /\ frames' = goto(assign_local(frames, c, "unique_tags",
                          unique_in_order(<<>>, frames[c].found_tags)),
                      c, "tagged")
    /\ UNCHANGED <<extractor_vars, call_vars, copy_vars, storage_vars>>

\* extract_tags returns unique_tags; extract_tags_by_category goes on to partition them
Return(c) ==
    /\ frames[c].pc = "tagged"
    /\ IF frames[c].method = "extract_tags"
       THEN frames' = goto(frames, c, "returned")
       ELSE LET empty == [keys |-> categories.keys,
                          items |-> [k \in DOMAIN categories.items |-> <<>>]]
                filled == categorize(empty, frames[c].unique_tags, keyword_to_categories)
            IN frames' = goto(assign_local(frames, c, "result",
                                  drop_empty(EmptyDict, filled, filled.keys)),
                              c, "returned")
    /\ UNCHANGED <<extractor_vars, call_vars, copy_vars, storage_vars>>

NextCallers ==
    \E c \in Callers :
        \/ \E d \in CallerDescriptions, f \in CallerFilters : Call(c, "extract_tags", d, f)
        \/ \E d \in CallerDescriptions : Call(c, "extract_tags_by_category", d, <<>>)
        \/ Preprocess(c)
        \/ FindKeywords(c)
        \/ Deduplicate(c)
        \/ Return(c)

SpecCallers == InitCallers /\ [][NextCallers]_vars

(***************************************************************************)
(* The state machine of the holders of taxonomy copies.                    *)
(***************************************************************************)
InitCopies ==
    /\ ExtractorConstructed
    /\ max_backups = DefaultMaxBackups
    /\ NoStorage
    /\ description = ""
    /\ NoCall
    /\ NoCallers
    /\ NoCopies

\* categories = get_tag_categories()
GetTagCategories(h) ==
    /\ h \in Editors
    /\ LET call == get_tag_categories_call(heap)
           refs == [held EXCEPT ![h] = call.ref]
       IN /\ held' = refs
          /\ heap' = Reachable(call.objects, refs)
          /\ returned' = <<call.objects[call.ref]>>
    /\ edits' = [edits EXCEPT ![h] = <<>>]
    /\ UNCHANGED <<extractor_vars, call_vars, frames, storage_vars>>

\* TagExtractor(): self.categories = get_tag_categories(), then the reverse lookup
ConstructExtractor ==
    /\ LET call == get_tag_categories_call(heap)
           refs == [held EXCEPT !["extractor"] = call.ref]
       IN /\ held' = refs
          /\ heap' = Reachable(call.objects, refs)
          /\ returned' = <<call.objects[call.ref]>>
          /\ categories' = call.objects[call.ref]
          /\ keyword_to_categories' = build_keyword_to_categories(call.objects[call.ref])
    /\ edits' = [edits EXCEPT !["extractor"] = <<>>]
    /\ UNCHANGED <<call_vars, frames, storage_vars>>

\* categories["food"].append("new_food_item")
AppendKeyword(h) ==
    /\ h \in Editors
    /\ held[h] # 0
    /\ DictHas(heap[held[h]], "food")
    /\ ~SeqContains(heap[held[h]].items["food"], "new_food_item")
    /\ heap' = [heap EXCEPT ![held[h]] =
                   DictSet(@, "food", Append(@.items["food"], "new_food_item"))]
    /\ edits' = [edits EXCEPT ![h] = Append(@, "append")]
    /\ UNCHANGED <<extractor_vars, call_vars, frames, held, returned, storage_vars>>

\* categories["souvenirs"] = ["postcard"]
AddCategory(h) ==
    /\ h \in Editors
    /\ held[h] # 0
    /\ ~DictHas(heap[held[h]], "souvenirs")
    /\ heap' = [heap EXCEPT ![held[h]] = DictSet(@, "souvenirs", <<"postcard">>)]
    /\ edits' = [edits EXCEPT ![h] = Append(@, "add")]
    /\ UNCHANGED <<extractor_vars, call_vars, frames, held, returned, storage_vars>>

\* del categories["food"]
RemoveCategory(h) ==
    /\ h \in Editors
    /\ held[h] # 0
    /\ DictHas(heap[held[h]], "food")
    /\ heap' = [heap EXCEPT ![held[h]] = DictDel(@, "food")]
    /\ edits' = [edits EXCEPT ![h] = Append(@, "remove")]
    /\ UNCHANGED <<extractor_vars, call_vars, frames, held, returned, storage_vars>>

NextCopies ==
    \/ ConstructExtractor
    \/ \E h \in Editors :
          \/ GetTagCategories(h)
          \/ AppendKeyword(h)
          \/ AddCategory(h)
          \/ RemoveCategory(h)

SpecCopies == InitCopies /\ [][NextCopies]_vars

(***************************************************************************)
(* The storage and the service: operations of a process, and the steps of  *)
(* StorageService.save_memories.                                           *)
(***************************************************************************)
now == [second |-> second, instant |-> instant]

\* the ids of the memories in the file and of those being added
UsedIds ==
    (IF FileExists(files, memories_file) /\ files[memories_file].content # <<>>
     THEN {files[memories_file].content[1].memories[i].id :
              i \in 1..Len(files[memories_file].content[1].memories)}
     ELSE {})
    \cup {local[p].memory_id : p \in Processes}

\* the memories a caller of the storage hands to add_memory; they share an id
StorageMemories ==
    {Memory_new("a", "Rome, Italy", 17, "Colosseum visit", <<>>,
                <<[second |-> 0, instant |-> 0]>>, <<[second |-> 0, instant |-> 0]>>,
                [second |-> 0, instant |-> 0])[1],
     Memory_new("a", "Florence, Italy", 18, "Uffizi Gallery ", <<"art">>,
                <<[second |-> 0, instant |-> 0]>>, <<[second |-> 0, instant |-> 0]>>,
                [second |-> 0, instant |-> 0])[1]}

\* the memory of the one-memory collections a caller hands to save_memories
SavedMemories ==
    {Memory_new("b", "Tokyo, Japan", 16, "Sushi experience", <<>>,
                <<[second |-> 0, instant |-> 0]>>, <<[second |-> 0, instant |-> 0]>>,
                [second |-> 0, instant |-> 0])[1]}

\* the arguments of the explored add_memory calls: location, date, description, manual_tags
ServiceInputs ==
    {<<" Rome", 17, "Great wine, art! ", <<>>>>,
     <<" Rome", 17, "Great wine, art! ", << <<>> >>>>,
     <<"Paris", 16, "Great wine, art! ", << <<"trip", "wine", "trip">> >>>>,
     <<"", 17, "Great wine, art! ", <<>>>>,
     <<" ", 16, "", << <<"trip">> >>>>,
     <<"Paris", 16, " \t", << <<"trip", "wine", "trip">> >>>>}

Limits == {<<>>, <<0>>, <<1>>, <<2>>}

TagFilters == {<<>>, << <<>> >>, << <<"trip">> >>, << <<"art", "nosuch">> >>}

QueriedIds == {"id1", "nosuch"}

\* MemoryService.add_memory, up to the call of StorageService.save_memories
ServiceAddMemory(p, location, date, descr, manual) ==
    /\ local[p].pc = "idle"
    /\ instant < MaxSaves
    /\ LET memory_id == create_memory_id(UsedIds)
           auto_tags == extract_tags(categories, descr, <<>>)
           memory == Memory_new(memory_id, location, date, descr,
                                merge_tags(manual, auto_tags), <<>>, <<>>, now)
           loaded == load_memories(files, now)
           started == [IdleLocal EXCEPT !.op = "add_memory", !.before = files,
                                        !.location = location, !.description = descr,
                                        !.manual_tags = manual]
       IN local' = [local EXCEPT ![p] =
              IF memory = <<>> \/ loaded = <<>>
              THEN [started EXCEPT !.outcome = "ValueError"]
              ELSE [started EXCEPT
                       !.outcome = "running", !.pc = "create_backup",
                       !.memory_id = memory_id, !.memory = memory,
                       !.collection = <<collection_add_memory(loaded[1], memory[1], now)>>]]
    /\ UNCHANGED <<extractor_vars, call_vars, frames, copy_vars,
                   max_backups, files, second, instant>>

\* StorageService.add_memory(m), up to the call of save_memories
StorageAddMemory(p, m) ==
    /\ local[p].pc = "idle"
    /\ instant < MaxSaves
    /\ LET loaded == load_memories(files, now)
           started == [IdleLocal EXCEPT !.op = "storage.add_memory", !.before = files,
                                        !.memory_id = m.id, !.memory = <<m>>]
       IN local' = [local EXCEPT ![p] =
              IF loaded = <<>>
              THEN [started EXCEPT !.outcome = "ValueError"]
              ELSE [started EXCEPT
                       !.outcome = "running", !.pc = "create_backup",
                       !.collection = <<collection_add_memory(loaded[1], m, now)>>]]
    /\ UNCHANGED <<extractor_vars, call_vars, frames, copy_vars,
                   max_backups, files, second, instant>>

\* StorageService.save_memories(MemoryCollection(memories=[m])), entered
StorageSaveMemories(p, m) ==
    /\ local[p].pc = "idle"
    /\ instant < MaxSaves
    /\ local' = [local EXCEPT ![p] =
           [IdleLocal EXCEPT
               !.op = "storage.save_memories", !.before = files,
               !.outcome = "running", !.pc = "create_backup",
               !.collection = <<MemoryCollection_new(<<m>>, <<>>, now)>>]]
    /\ UNCHANGED <<extractor_vars, call_vars, frames, copy_vars,
                   max_backups, files, second, instant>>

\* MemoryService.process_memory_tags, up to the call of save_memories
ProcessMemoryTags(p, memory_id) ==
    /\ local[p].pc = "idle"
    /\ instant < MaxSaves
    /\ LET call == process_memory_tags(files, categories, memory_id, now)
           started == [IdleLocal EXCEPT !.op = "process_memory_tags", !.before = files,
                                        !.memory_id = memory_id]
       IN local' = [local EXCEPT ![p] =
              IF call.outcome = "ValueError" THEN [started EXCEPT !.outcome = "ValueError"]
              ELSE IF call.outcome = "None" THEN [started EXCEPT !.outcome = "returned"]
              ELSE [started EXCEPT
                       !.outcome = "running", !.pc = "create_backup",
                       !.memory = call.memory, !.result = call.memory,
                       !.collection = call.collection]]
    /\ UNCHANGED <<extractor_vars, call_vars, frames, copy_vars,
                   max_backups, files, second, instant>>

\* MemoryService.process_all_untagged_memories(min_tags), up to its loop
ProcessAllUntagged(p, min_tags) ==
    /\ local[p].pc = "idle"
    /\ instant < MaxSaves
    /\ LET loaded == load_memories(files, now)
           started == [IdleLocal EXCEPT !.op = "process_all_untagged_memories",
                                        !.before = files, !.min_tags = min_tags]
       IN local' = [local EXCEPT ![p] =
              IF loaded = <<>> THEN [started EXCEPT !.outcome = "ValueError"]
              ELSE [started EXCEPT
                       !.outcome = "running", !.pc = "next_memory",
                       !.memories = loaded[1].memories]]
    /\ UNCHANGED <<extractor_vars, call_vars, frames, copy_vars,
                   max_backups, files, second, instant>>

\* one turn of the loop of process_all_untagged_memories: the next memory of the list
\* is skipped or handed to process_memory_tags and counted; after the last one the
\* count is returned
NextMemory(p) ==
    /\ local[p].pc = "next_memory"
    /\ local' = [local EXCEPT ![p] =
           IF local[p].memories = <<>>
           THEN [local[p] EXCEPT !.pc = "idle", !.outcome = "returned",
                                 !.result = <<local[p].processed_count>>]
           ELSE LET memory == Head(local[p].memories)
                    rest == [local[p] EXCEPT !.memories = Tail(local[p].memories)]
                    call == process_memory_tags(files, categories, memory.id, now)
                    counted == [rest EXCEPT
                                   !.processed_count = local[p].processed_count + 1,
                                   !.processed = Append(local[p].processed, memory.id)]
                IN IF ~needs_processing(memory, local[p].min_tags) THEN rest
                   ELSE IF call.outcome = "ValueError"
                   THEN [rest EXCEPT !.pc = "idle", !.outcome = "ValueError"]
                   ELSE IF call.outcome = "None" THEN counted
                   ELSE [counted EXCEPT
                            !.pc = "create_backup", !.memory_id = memory.id,
                            !.memory = call.memory, !.collection = call.collection]]
    /\ UNCHANGED <<extractor_vars, call_vars, frames, copy_vars,
                   max_backups, files, second, instant>>

\* MemoryService.list_memories(limit, tag_filter)
ListMemories(p, limit, tag_filter) ==
    /\ local[p].pc = "idle"
    /\ LET loaded == load_memories(files, now)
           started == [IdleLocal EXCEPT !.op = "list_memories", !.before = files,
                                        !.limit = limit, !.tag_filter = tag_filter]
       IN local' = [local EXCEPT ![p] =
              IF loaded = <<>> THEN [started EXCEPT !.outcome = "ValueError"]
              ELSE [started EXCEPT
                       !.outcome = "returned",
                       !.result = list_memories(loaded[1].memories, limit, tag_filter)]]
    /\ UNCHANGED <<extractor_vars, call_vars, frames, copy_vars,
                   max_backups, files, second, instant>>

\* MemoryService.get_memory_by_id, StorageService.get_memory_by_id
GetMemoryById(p, memory_id) ==
    /\ local[p].pc = "idle"
    /\ LET loaded == load_memories(files, now)
           started == [IdleLocal EXCEPT !.op = "get_memory_by_id", !.before = files,
                                        !.memory_id = memory_id]
       IN local' = [local EXCEPT ![p] =
              IF loaded = <<>> THEN [started EXCEPT !.outcome = "ValueError"]
              ELSE [started EXCEPT
                       !.outcome = "returned",
                       !.result = collection_get_memory_by_id(loaded[1].memories, memory_id)]]
    /\ UNCHANGED <<extractor_vars, call_vars, frames, copy_vars,
                   max_backups, files, second, instant>>

\* save_memories: if self.memories_file.exists(): self._create_backup(); then the
\* document is prepared
CreateBackup(p) ==
    /\ local[p].pc = "create_backup"
    /\ files' = create_backup(files, now)
    /\ local' = [local EXCEPT ![p].pc = "open_temp",
                              ![p].data = <<dump_collection(local[p].collection[1], now)>>]
    /\ UNCHANGED <<extractor_vars, call_vars, frames, copy_vars,
                   max_backups, second, instant>>

\* open(temp_file, 'w'): the file is created or truncated, or the open is refused
OpenTemp(p, fails) ==
    /\ local[p].pc = "open_temp"
    /\ IF fails
       THEN /\ files' = unlink_temp(files)
            /\ local' = [local EXCEPT ![p].pc = "idle", ![p].outcome = "PermissionError"]
       ELSE /\ files' = open_write(files, with_suffix_tmp(memories_file), p, instant)
            /\ local' = [local EXCEPT ![p].pc = "write_temp"]
    /\ UNCHANGED <<extractor_vars, call_vars, frames, copy_vars,
                   max_backups, second, instant>>

\* json.dump into the open file: the whole document, or an error part-way
WriteTemp(p, fails) ==
    /\ local[p].pc = "write_temp"
    /\ IF fails
       THEN /\ files' \in {unlink_temp(close_file(f, p)) :
                                f \in write_partly(files, p, instant)}
            /\ local' = [local EXCEPT ![p].pc = "idle", ![p].outcome = "OSError"]
            /\ UNCHANGED instant
       ELSE /\ files' = close_file(write_through(files, p, local[p].data, instant), p)
            /\ local' = [local EXCEPT ![p].pc = "rename"]
            /\ instant' = instant + 1
    /\ UNCHANGED <<extractor_vars, call_vars, frames, copy_vars, max_backups, second>>

\* temp_file.rename(self.memories_file): it fails where no temporary file is left
Rename(p, fails) ==
    /\ local[p].pc = "rename"
    /\ IF fails \/ ~FileExists(files, with_suffix_tmp(memories_file))
       THEN /\ files' = unlink_temp(files)
            /\ local' = [local EXCEPT ![p].pc = "idle", ![p].outcome = "OSError"]
       ELSE /\ files' = FileRename(files, with_suffix_tmp(memories_file), memories_file)
            /\ local' = [local EXCEPT ![p].pc = "cleanup_backups"]
    /\ UNCHANGED <<extractor_vars, call_vars, frames, copy_vars,
                   max_backups, second, instant>>

\* self._cleanup_backups(), and the operation returns; inside
\* process_all_untagged_memories the loop goes on
CleanupBackups(p) ==
    /\ local[p].pc = "cleanup_backups"
    /\ files' \in cleanup_backups(files, max_backups)
    /\ local' = [local EXCEPT
                    ![p].pc = IF local[p].op = "process_all_untagged_memories"
                              THEN "next_memory" ELSE "idle",
                    ![p].outcome = IF local[p].op = "process_all_untagged_memories"
                                   THEN "running" ELSE "returned",
                    ![p].deleted = {files[b] : b \in DOMAIN files \ DOMAIN files'}]
    /\ UNCHANGED <<extractor_vars, call_vars, frames, copy_vars,
                   max_backups, second, instant>>

\* the clock reaches the next second
Tick ==
    /\ second < MaxSeconds
    /\ second' = second + 1
    /\ UNCHANGED <<extractor_vars, call_vars, frames, copy_vars,
                   max_backups, files, instant, local>>

(***************************************************************************)
(* The state machine of a StorageService used by one process, in a         *)
(* program that constructs no TagExtractor.                                *)
(***************************************************************************)
InitStorage ==
    /\ categories = EmptyDict
    /\ keyword_to_categories = <<>>
    /\ description = ""
    /\ NoCall
    /\ NoCallers
    /\ NoCopies
    /\ max_backups \in 0..MaxRetained
    /\ NoStorage

NextStorage ==
    \/ \E m \in StorageMemories : StorageAddMemory("process1", m)
    \/ \E m \in SavedMemories : StorageSaveMemories("process1", m)
    \/ CreateBackup("process1")
    \/ \E fails \in BOOLEAN : OpenTemp("process1", fails)
    \/ \E fails \in BOOLEAN : WriteTemp("process1", fails)
    \/ \E fails \in BOOLEAN : Rename("process1", fails)
    \/ CleanupBackups("process1")
    \/ Tick

SpecStorage == InitStorage /\ [][NextStorage]_vars

(***************************************************************************)
(* The state machine of a MemoryService used by one process; the file      *)
(* system refuses nothing.                                                 *)
(***************************************************************************)
InitService ==
    /\ ExtractorConstructed
    /\ description = ""
    /\ NoCall
    /\ NoCallers
    /\ NoCopies
    /\ max_backups = DefaultMaxBackups
    /\ NoStorage

NextService ==
    \/ \E input \in ServiceInputs :
          ServiceAddMemory("process1", input[1], input[2], input[3], input[4])
    \/ \E memory_id \in QueriedIds : ProcessMemoryTags("process1", memory_id)
    \/ \E limit \in Limits, tag_filter \in TagFilters :
          ListMemories("process1", limit, tag_filter)
    \/ \E memory_id \in QueriedIds : GetMemoryById("process1", memory_id)
    \/ CreateBackup("process1")
    \/ OpenTemp("process1", FALSE)
    \/ WriteTemp("process1", FALSE)
    \/ Rename("process1", FALSE)
    \/ CleanupBackups("process1")

SpecService == InitService /\ [][NextService]_vars

(***************************************************************************)
(* The state machine of a MemoryService whose directory also receives      *)
(* memories that carry fewer tags than their description gives; the tags   *)
(* of stored memories are re-processed.                                    *)
(***************************************************************************)
\* the arguments of the explored add_memory calls
TaggingInputs ==
    {<<" Rome", 17, "we walked all day", <<>>>>,
     <<"Paris", 16, "Great wine, art! ", << <<"trip", "wine", "trip">> >>>>}

\* a memory stored with two tags, one of them a keyword of its description
UntaggedMemories ==
    {Memory_new("c", "Florence, Italy", 18, "Uffizi Gallery art", <<"gallery", "trip">>,
                <<[second |-> 0, instant |-> 0]>>, <<[second |-> 0, instant |-> 0]>>,
                [second |-> 0, instant |-> 0])[1]}

ReprocessedIds == {"id1", "c", "nosuch"}

\* min_tags: the default and a larger one
MinTags == {2, 3}

InitTagging ==
    /\ ExtractorConstructed
    /\ description = ""
    /\ NoCall
    /\ NoCallers
    /\ NoCopies
    /\ max_backups = DefaultMaxBackups
    /\ NoStorage

NextTagging ==
    \/ \E input \in TaggingInputs :
          ServiceAddMemory("process1", input[1], input[2], input[3], input[4])
    \/ \E m \in UntaggedMemories : m.id \notin UsedIds /\ StorageAddMemory("process1", m)
    \/ \E memory_id \in ReprocessedIds : ProcessMemoryTags("process1", memory_id)
    \/ \E min_tags \in MinTags : ProcessAllUntagged("process1", min_tags)
    \/ NextMemory("process1")
    \/ CreateBackup("process1")
    \/ OpenTemp("process1", FALSE)
    \/ WriteTemp("process1", FALSE)
    \/ Rename("process1", FALSE)
    \/ CleanupBackups("process1")

SpecTagging == InitTagging /\ [][NextTagging]_vars

(***************************************************************************)
(* The state machine of two processes, each with its own StorageService,   *)
(* on one storage directory: each adds its own memory, and the steps of    *)
(* the two calls interleave in every way. No step is refused by the        *)
(* system; a rename still fails where the other process has taken the      *)
(* temporary file away.                                                    *)
(***************************************************************************)
\* the memory each process adds
AddedBy ==
    [p \in Processes |->
        IF p = "process1"
        THEN Memory_new("a", "Rome, Italy", 17, "Colosseum visit", <<>>,
                        <<[second |-> 0, instant |-> 0]>>, <<[second |-> 0, instant |-> 0]>>,
                        [second |-> 0, instant |-> 0])[1]
        ELSE Memory_new("b", "Tokyo, Japan", 16, "Sushi experience", <<"sushi">>,
                        <<[second |-> 0, instant |-> 0]>>, <<[second |-> 0, instant |-> 0]>>,
                        [second |-> 0, instant |-> 0])[1]]

InitShared ==
    /\ categories = EmptyDict
    /\ keyword_to_categories = <<>>
    /\ description = ""
    /\ NoCall
    /\ NoCallers
    /\ NoCopies
    /\ max_backups = DefaultMaxBackups
    /\ NoStorage

NextShared ==
    \/ \E p \in Processes : StorageAddMemory(p, AddedBy[p])
    \/ \E p \in Processes : CreateBackup(p)
    \/ \E p \in Processes : OpenTemp(p, FALSE)
    \/ \E p \in Processes : WriteTemp(p, FALSE)
    \/ \E p \in Processes : Rename(p, FALSE)
    \/ \E p \in Processes : CleanupBackups(p)
    \/ Tick

SpecShared == InitShared /\ [][NextShared]_vars

(***************************************************************************)
(* Vocabulary of the properties, stated without the extractor's own        *)
(* operators.                                                              *)
(***************************************************************************)
None == <<>>

SeqToSet(s) == {s[i] : i \in 1..Len(s)}

NoDuplicates(s) == \A i, j \in 1..Len(s) : i # j => s[i] # s[j]

\* the categories of the taxonomy that declare the keyword
DeclaringCategories(keyword) ==
    {c \in DOMAIN categories.items : keyword \in SeqToSet(categories.items[c])}

IndexOf(s, x) == CHOOSE i \in 1..Len(s) : s[i] = x /\ \A j \in 1..(i - 1) : s[j] # x

\* (index of the first category declaring the keyword, index of the keyword in it)
DeclarationRank(keyword) ==
    LET first == CHOOSE i \in 1..Len(categories.keys) :
                    /\ categories.keys[i] \in DeclaringCategories(keyword)
                    /\ \A j \in 1..(i - 1) :
                          categories.keys[j] \notin DeclaringCategories(keyword)
    IN <<first, IndexOf(categories.items[categories.keys[first]], keyword)>>

RankBefore(a, b) == a[1] < b[1] \/ (a[1] = b[1] /\ a[2] < b[2])

(***************************************************************************)
(* C1: whatever the description and the category filter, the list          *)
(* extract_tags returns holds no keyword twice.                            *)
(***************************************************************************)
C1_NoDuplicateTags == op = "extract_tags" => NoDuplicates(tags)

\* a call whose matcher result held a keyword more than once
C1_Witness ==
    /\ op = "extract_tags"
    /\ tags # <<>>
    /\ Len(find_keywords(categories, preprocess_text(description), filter)) > Len(tags)

(***************************************************************************)
(* C2: an unfiltered extract_tags lists its tags by (first declaring       *)
(* category, place in that category), whatever the order of the words in   *)
(* the text: tag a precedes tag b iff a's rank is smaller than b's.        *)
(***************************************************************************)
C2_DeclarationOrder ==
    (op = "extract_tags" /\ filter = None) =>
        \A i, j \in 1..Len(tags) :
            i < j <=> RankBefore(DeclarationRank(tags[i]), DeclarationRank(tags[j]))

\* the text names the transport keyword first, the result the culture keyword
C2_Witness ==
    /\ op = "extract_tags"
    /\ filter = None
    /\ description = "walked art"
    /\ tags = <<"art", "walking">>

(***************************************************************************)
(* C3: for every subset C of the categories, the empty one included, each  *)
(* tag of extract_tags(d, categories=C) is declared in a category of C and *)
(* is a tag of extract_tags(d).                                            *)
(***************************************************************************)
C3_FilterSubset ==
    (op = "extract_tags" /\ filter # None
        /\ SeqToSet(filter[1]) \subseteq SeqToSet(categories.keys)) =>
        /\ \A t \in SeqToSet(tags) : DeclaringCategories(t) \cap SeqToSet(filter[1]) # {}
        /\ SeqToSet(tags) \subseteq SeqToSet(extract_tags(categories, description, None))

(***************************************************************************)
(* Word forms, stated from the matching rules.                             *)
(***************************************************************************)
AllKeywords == UNION {SeqToSet(categories.items[c]) : c \in DOMAIN categories.items}

IsSingleWord(keyword) == ~IsSubstring(" ", keyword)

\* the word forms that stand for a single-word keyword besides the keyword itself
VariantForms(k) ==
    {k \o "s", k \o "es"}
    \cup (IF str_endswith(k, "y") THEN {SubSeq(k, 1, Len(k) - 1) \o "ies"} ELSE {})
    \cup (IF str_endswith(k, "ing")
          THEN LET base == SubSeq(k, 1, Len(k) - 3) IN {base, base \o "ed", base \o "s"}
          ELSE {k \o "ing", k \o "ed"})

\* every stretch of the text, the text being delimited by a space at both ends
Stretches(text) ==
    LET padded == " " \o text \o " "
    IN {SubSeq(padded, i, j) : i \in 1..Len(padded), j \in 1..Len(padded)}

\* the form stands in the text as whole words: delimited by spaces or the text's ends
WholeWordIn(form, stretches) == (" " \o form \o " ") \in stretches

(***************************************************************************)
(* C4: a tag is produced only by a whole-word occurrence, in the           *)
(* normalized text, of the keyword or of one of its variants; a keyword    *)
(* that is only part of a longer word is not tagged.  'restaurateur' does  *)
(* not give 'restaurant', 'the restaurant' does.                           *)
(***************************************************************************)
C4_WholeWordOnly ==
    op = "extract_tags" =>
        LET stretches == Stretches(preprocess_text(description))
        IN /\ \A t \in SeqToSet(tags) :
                \/ WholeWordIn(t, stretches)
                \/ /\ IsSingleWord(t)
                   /\ \E v \in VariantForms(t) : WholeWordIn(v, stretches)
           /\ description = "restaurateur" => "restaurant" \notin SeqToSet(tags)
           /\ (description = "the restaurant" /\ filter = None) =>
                "restaurant" \in SeqToSet(tags)

\* 'art' followed by an underscore is part of the longer word 'art_'
C4_Witness ==
    /\ op = "extract_tags"
    /\ filter = None
    /\ description = "art_ walked"
    /\ tags = <<"walking">>

(***************************************************************************)
(* C5: every tag returned is a keyword of the taxonomy in its declared     *)
(* form; a variant in the text gives the declared keyword ('hiked through  *)
(* the mountains' gives 'mountain', not 'mountains').                      *)
(***************************************************************************)
C5_CanonicalKeywords ==
    op = "extract_tags" =>
        /\ \A t \in SeqToSet(tags) : t \in AllKeywords
        /\ (description = "hiked through the mountains" /\ filter = None) =>
              /\ "mountain" \in SeqToSet(tags)
              /\ "mountains" \notin SeqToSet(tags)

C5_Witness ==
    /\ op = "extract_tags"
    /\ filter = None
    /\ description = "hiked through the mountains"
    /\ tags = <<"hiking", "mountain">>

(***************************************************************************)
(* C6: a single-word keyword without an exact whole-word match is tagged   *)
(* iff one of its variant forms (+s, +es, y->ies, and base, base+ed,       *)
(* base+s for '-ing' keywords, +ing, +ed for the others) stands in the     *)
(* normalized text as a whole word.  'we walked all day' gives 'walking'.  *)
(***************************************************************************)
C6_VariantMatching ==
    (op = "extract_tags" /\ filter = None) =>
        LET stretches == Stretches(preprocess_text(description))
        IN /\ \A k \in AllKeywords :
                (IsSingleWord(k) /\ ~WholeWordIn(k, stretches)) =>
                    (k \in SeqToSet(tags)
                        <=> \E v \in VariantForms(k) : WholeWordIn(v, stretches))
           /\ description = "we walked all day" => "walking" \in SeqToSet(tags)

C6_Witness ==
    /\ op = "extract_tags"
    /\ filter = None
    /\ description = "we walked all day"
    /\ tags = <<"walking">>

\* the upper-case forms of the letters
UpperOf ==
    "a" :> "A" @@ "b" :> "B" @@ "c" :> "C" @@ "d" :> "D" @@ "e" :> "E" @@
    "f" :> "F" @@ "g" :> "G" @@ "h" :> "H" @@ "i" :> "I" @@ "j" :> "J" @@
    "k" :> "K" @@ "l" :> "L" @@ "m" :> "M" @@ "n" :> "N" @@ "o" :> "O" @@
    "p" :> "P" @@ "q" :> "Q" @@ "r" :> "R" @@ "s" :> "S" @@ "t" :> "T" @@
    "u" :> "U" @@ "v" :> "V" @@ "w" :> "W" @@ "x" :> "X" @@ "y" :> "Y" @@
    "z" :> "Z" @@ SharpS :> "SS"

\* str.upper(): the upper-case form of a letter may be longer than the letter
str_upper(text) ==
    Concat([i \in 1..Len(text) |->
        LET c == SubSeq(text, i, i) IN IF c \in DOMAIN UpperOf THEN UpperOf[c] ELSE c])

(***************************************************************************)
(* C7: extract_tags gives the same ordered list for a description, for the *)
(* description upper-cased and for the description lower-cased.            *)
(***************************************************************************)
C7_CaseInsensitive ==
    (op = "extract_tags" /\ filter = None) =>
        /\ tags = extract_tags(categories, str_upper(description), None)
        /\ tags = extract_tags(categories, str_lower(description), None)

(***************************************************************************)
(* C8: extract_tags_by_category lists a keyword under a category iff       *)
(* extract_tags returns the keyword and the category declares it; a        *)
(* category without such a keyword is absent from the result.              *)
(***************************************************************************)
C8_CategoryRoundTrip ==
    op = "extract_tags_by_category" =>
        LET all == SeqToSet(extract_tags(categories, description, None))
            listed(c) == IF c \in DOMAIN categorized.items
                         THEN SeqToSet(categorized.items[c]) ELSE {}
        IN /\ \A c \in SeqToSet(categories.keys) :
                listed(c) = {k \in all : c \in DeclaringCategories(k)}
           /\ SeqToSet(categorized.keys) = DOMAIN categorized.items
           /\ \A c \in DOMAIN categorized.items :
                c \in SeqToSet(categories.keys) /\ categorized.items[c] # <<>>

\* 'art' is declared by culture and by shopping, and listed under both
C8_Witness ==
    /\ op = "extract_tags_by_category"
    /\ description = "art"
    /\ categorized.keys = <<"culture", "shopping">>
    /\ categorized.items["culture"] = <<"art">>
    /\ categorized.items["shopping"] = <<"art">>

\* no letter, digit or underscore in the text
IsTrivialText(text) == \A i \in 1..Len(text) : ~IsWordChar(SubSeq(text, i, i))

\* the part of a keyword that all of its forms share
Stem(k) ==
    IF str_endswith(k, "ing") THEN SubSeq(k, 1, Len(k) - 3)
    ELSE IF str_endswith(k, "y") THEN SubSeq(k, 1, Len(k) - 1)
    ELSE k

\* no keyword of the taxonomy occurs in the text, in no form and not even within a word
NoKeywordOccurs(text) ==
    LET stretches == Stretches(str_lower(text))
    IN \A k \in AllKeywords : Stem(k) \notin stretches

(***************************************************************************)
(* C9: empty, whitespace-only and punctuation-only input give an empty     *)
(* list and an empty mapping, and a text in which no keyword occurs gives  *)
(* an empty list; no call fails.                                           *)
(***************************************************************************)
C9_TrivialInputs ==
    /\ (op = "extract_tags" /\ IsTrivialText(description)) => tags = <<>>
    /\ (op = "extract_tags_by_category" /\ IsTrivialText(description)) =>
            categorized = EmptyDict
    /\ (op = "extract_tags" /\ NoKeywordOccurs(description)) => tags = <<>>

C9_Witness ==
    /\ op = "extract_tags_by_category"
    /\ description = "?!..."
    /\ categorized = EmptyDict

\* the text with a space in the place of every punctuation character
RECURSIVE WithoutPunctuation(_)
WithoutPunctuation(text) ==
    IF text = "" THEN ""
    ELSE LET c == SubSeq(text, 1, 1)
         IN (IF c \in WordChars \cup SpaceChars THEN c ELSE " ")
            \o WithoutPunctuation(SubSeq(text, 2, Len(text)))

(***************************************************************************)
(* C10: replacing every character of the description that is not a letter, *)
(* a digit, an underscore or whitespace by a space leaves the result of    *)
(* extract_tags unchanged.  'Great wine! Amazing art...' gives 'wine' and  *)
(* 'art'.                                                                  *)
(***************************************************************************)
C10_PunctuationRobust ==
    op = "extract_tags" =>
        /\ tags = extract_tags(categories, WithoutPunctuation(description), filter)
        /\ (description = "Great wine! Amazing art..." /\ filter = None) =>
              {"wine", "art"} \subseteq SeqToSet(tags)

C10_Witness ==
    /\ op = "extract_tags"
    /\ filter = None
    /\ description = "Great wine! Amazing art..."
    /\ tags = <<"wine", "art", "amazing">>

(***************************************************************************)
(* C11: extract_tags and extract_tags_by_category leave the extractor's    *)
(* taxonomy and reverse index as construction made them, and whatever the  *)
(* interleaving of the callers' steps and whatever calls were made before, *)
(* a call that has returned holds exactly the result a freshly constructed *)
(* extractor gives for its arguments; two returned calls with the same     *)
(* arguments hold the same ordered result.                                 *)
(***************************************************************************)
C11_SharedExtractor ==
    /\ categories = get_tag_categories
    /\ keyword_to_categories = build_keyword_to_categories(get_tag_categories)
    /\ \A c \in Callers :
          frames[c].pc = "returned" =>
              IF frames[c].method = "extract_tags"
              THEN frames[c].unique_tags =
                       extract_tags(get_tag_categories, frames[c].description,
                                    frames[c].categories)
              ELSE frames[c].result =
                       extract_tags_by_category(
                           get_tag_categories,
                           build_keyword_to_categories(get_tag_categories),
                           frames[c].description)
    /\ \A c1, c2 \in Callers :
          /\ frames[c1].pc = "returned" /\ frames[c2].pc = "returned"
          /\ frames[c1].method = frames[c2].method
          /\ frames[c1].description = frames[c2].description
          /\ frames[c1].categories = frames[c2].categories
          => /\ frames[c1].unique_tags = frames[c2].unique_tags
             /\ frames[c1].result = frames[c2].result

\* one caller has returned tags while the other, called with another text, is between
\* the matcher and the deduplication
C11_Witness ==
    /\ frames["caller1"].pc = "returned"
    /\ frames["caller1"].description = "Great wine! Amazing art..."
    /\ {"wine", "art"} \subseteq SeqToSet(frames["caller1"].unique_tags)
    /\ frames["caller2"].pc = "found"
    /\ frames["caller2"].description = "we walked all day"
    /\ frames["caller2"].found_tags = <<"walking", "walking">>

(***************************************************************************)
(* C12: every call of get_tag_categories, and so every TagExtractor        *)
(* construction, returns a structure equal to the original definition,     *)
(* whatever the holders of earlier copies did to them (appended a keyword, *)
(* added or removed a category); each holder's copy shows its own edits    *)
(* and nobody else's.                                                      *)
(***************************************************************************)
RECURSIVE Edited(_, _)
Edited(taxonomy, done) ==
    IF done = <<>> THEN taxonomy
    ELSE LET e == Head(done)
             after ==
                 IF e = "append"
                 THEN [taxonomy EXCEPT !.items["food"] = Append(@, "new_food_item")]
                 ELSE IF e = "add"
                 THEN [keys |-> Append(taxonomy.keys, "souvenirs"),
                       items |-> taxonomy.items @@ ("souvenirs" :> <<"postcard">>)]
                 ELSE [keys |-> SelectSeq(taxonomy.keys, LAMBDA k : k # "food"),
                       items |-> [k \in DOMAIN taxonomy.items \ {"food"} |->
                                     taxonomy.items[k]]]
         IN Edited(after, Tail(done))

C12_IndependentCopies ==
    /\ returned # <<>> => returned[1] = get_tag_categories
    /\ categories = get_tag_categories
    /\ \A h \in Holders :
          held[h] # 0 => heap[held[h]] = Edited(get_tag_categories, edits[h])

\* holder1 has edited its copy in all three ways, and holder2 and the extractor got
\* theirs afterwards
C12_Witness ==
    /\ Len(edits["holder1"]) = 3
    /\ held["holder2"] # 0 /\ edits["holder2"] = <<>>
    /\ held["extractor"] # 0
    /\ returned # <<>>
    /\ heap[held["holder1"]] # heap[held["holder2"]]

(***************************************************************************)
(* Vocabulary of the properties of the storage and the service.            *)
(***************************************************************************)
Blank(text) == \A i \in 1..Len(text) : SubSeq(text, i, i) \in SpaceChars

\* the sequence with every element kept at its first occurrence only
RECURSIVE FirstOccurrences(_)
FirstOccurrences(s) ==
    IF s = <<>> THEN <<>>
    ELSE LET front == FirstOccurrences(SubSeq(s, 1, Len(s) - 1))
         IN IF s[Len(s)] \in SeqToSet(front) THEN front ELSE Append(front, s[Len(s)])

\* the memories a reader of the directory gets
StoredMemories(fs) == load_memories(fs, now)[1].memories

BackupPaths(fs) == DOMAIN fs \ {"memories.json", "memories.tmp"}

Saving == {"add_memory", "storage.add_memory", "storage.save_memories", "process_memory_tags"}

(***************************************************************************)
(* C13: the memory that MemoryService.add_memory stored carries the manual *)
(* tags in the order given, then the extracted tags in extraction order,   *)
(* each at its first occurrence only: no duplicates, every manual and      *)
(* every extracted tag present, a tag that is both at its manual position. *)
(***************************************************************************)
C13_ManualThenExtracted ==
    \A p \in Processes :
        local[p].op = "add_memory" /\ local[p].outcome = "returned" =>
            LET manual == IF local[p].manual_tags = <<>> THEN <<>>
                          ELSE local[p].manual_tags[1]
                extracted == extract_tags(get_tag_categories, local[p].description, <<>>)
                stored == SelectSeq(StoredMemories(files),
                                    LAMBDA m : m.id = local[p].memory_id)
            IN /\ Len(stored) = 1
               /\ stored[1].tags = FirstOccurrences(manual \o extracted)
               /\ NoDuplicates(stored[1].tags)
               /\ SeqToSet(stored[1].tags) = SeqToSet(manual) \cup SeqToSet(extracted)
               /\ \A t \in SeqToSet(manual) :
                     IndexOf(stored[1].tags, t) = IndexOf(FirstOccurrences(manual), t)

\* a memory added with manual tags that repeat a tag and name an extracted one
C13_Witness ==
    /\ local["process1"].op = "add_memory"
    /\ local["process1"].outcome = "returned"
    /\ local["process1"].manual_tags = << <<"trip", "wine", "trip">> >>
    /\ \E i \in 1..Len(StoredMemories(files)) :
          /\ StoredMemories(files)[i].id = local["process1"].memory_id
          /\ StoredMemories(files)[i].tags = <<"trip", "wine", "art">>

(***************************************************************************)
(* C14: memories.json is never seen partially written: in every state it   *)
(* is absent or holds a complete document; and when save_memories raised   *)
(* while opening or writing the temporary file or while renaming it,       *)
(* memories.json is exactly as it was at the call (or still absent) and no *)
(* temporary file remains.                                                 *)
(***************************************************************************)
C14_FailedSaveLeavesFile ==
    /\ FileExists(files, "memories.json") =>
          /\ files["memories.json"].content # <<>>
          /\ load_memories(files, now) # <<>>
    /\ \A p \in Processes :
          local[p].pc = "idle" /\ local[p].outcome \in {"PermissionError", "OSError"} =>
              /\ ~FileExists(files, "memories.tmp")
              /\ FileExists(files, "memories.json")
                     <=> FileExists(local[p].before, "memories.json")
              /\ FileExists(files, "memories.json") =>
                     files["memories.json"] = local[p].before["memories.json"]

\* a save over an existing file that raised after the document was prepared
C14_Witness ==
    /\ local["process1"].pc = "idle"
    /\ local["process1"].outcome = "OSError"
    /\ FileExists(files, "memories.json")
    /\ local["process1"].data # files["memories.json"].content
    /\ BackupPaths(files) # {}

(***************************************************************************)
(* C15: between operations (every process idle), whatever save_memories    *)
(* and add_memory calls came before and whether they returned or raised,   *)
(* the backups directory holds at most max_backups files, and none of the  *)
(* backups the last cleanup deleted is more recent than one it kept.       *)
(***************************************************************************)
C15_AtMostMaxBackups ==
    (\A p \in Processes : local[p].pc = "idle") =>
        /\ Cardinality(BackupPaths(files)) <= max_backups
        /\ \A p \in Processes : \A k \in BackupPaths(files), d \in local[p].deleted :
               files[k].mtime >= d.mtime

(***************************************************************************)
(* C16: when save_memories finds an existing memories.json, a backup with  *)
(* exactly that content exists from the moment the backup step is done,    *)
(* hence before and when the file is replaced; and with max_backups >= 1   *)
(* such a backup still exists once the save has returned.  Saves within    *)
(* the same clock second are included.                                     *)
(***************************************************************************)
C16_BackupBeforeReplace ==
    \A p \in Processes :
        (local[p].op \in Saving /\ FileExists(local[p].before, "memories.json")) =>
            LET overwritten == local[p].before["memories.json"].content
                backed_up == \E b \in BackupPaths(files) : files[b].content = overwritten
            IN /\ local[p].pc \in {"open_temp", "write_temp", "rename", "cleanup_backups"}
                     => backed_up
               /\ files["memories.json"].content # overwritten
                     => (local[p].pc = "cleanup_backups" \/ local[p].outcome = "returned")
               /\ (local[p].pc = "idle" /\ local[p].outcome = "returned" /\ max_backups >= 1)
                     => backed_up

\* the third save within one clock second has returned, one backup retained
C16_Witness ==
    /\ local["process1"].pc = "idle"
    /\ local["process1"].outcome = "returned"
    /\ max_backups = 1
    /\ second = 0
    /\ instant = 3
    /\ FileExists(local["process1"].before, "memories.json")
    /\ BackupPaths(local["process1"].before) # {}
    /\ \E b \in BackupPaths(files) :
          files[b].content = local["process1"].before["memories.json"].content

(***************************************************************************)
(* C17: after StorageService.add_memory(m) has returned,                   *)
(* get_memory_by_id(m.id) is a memory equal to m, list_memories() is the   *)
(* previous list followed by m, and get_memory_by_id of an id that was     *)
(* never added is None.                                                    *)
(***************************************************************************)
C17_AddThenGet ==
    \A p \in Processes :
        (local[p].op = "storage.add_memory" /\ local[p].pc = "idle"
            /\ local[p].outcome = "returned") =>
            LET m == local[p].memory[1]
            IN /\ collection_get_memory_by_id(StoredMemories(files), m.id) = <<m>>
               /\ StoredMemories(files) = Append(StoredMemories(local[p].before), m)
               /\ collection_get_memory_by_id(StoredMemories(files), "nosuch") = <<>>

\* the memory list is in ascending date order
SortedByDate(memory_list) ==
    \A i, j \in 1..Len(memory_list) : i < j => memory_list[i].date <= memory_list[j].date

\* memory_list is stored_list without the memories that fail the test, order kept
RECURSIVE Keeping(_, _)
Keeping(stored_list, tag_list) ==
    IF stored_list = <<>> THEN <<>>
    ELSE LET rest == Keeping(Tail(stored_list), tag_list)
         IN IF SeqToSet(Head(stored_list).tags) \cap SeqToSet(tag_list) # {}
            THEN <<Head(stored_list)>> \o rest ELSE rest

(***************************************************************************)
(* C18: MemoryService.list_memories returns the memories in ascending date *)
(* order; given a tag_filter it returns exactly the memories that carry at *)
(* least one of the filter's tags, in that order, and without one it       *)
(* returns all of them.                                                    *)
(***************************************************************************)
C18_ChronologicalAndFiltered ==
    \A p \in Processes :
        (local[p].op = "list_memories" /\ local[p].outcome = "returned"
            /\ local[p].limit = None) =>
            LET stored == StoredMemories(local[p].before)
                listed == local[p].result
                same_memories(left, right) ==
                    \A m \in SeqToSet(left) \cup SeqToSet(right) :
                        Cardinality({i \in 1..Len(left) : left[i] = m})
                            = Cardinality({i \in 1..Len(right) : right[i] = m})
            IN /\ SortedByDate(listed)
               /\ IF local[p].tag_filter = None
                  THEN same_memories(listed, stored)
                  ELSE same_memories(listed, Keeping(stored, local[p].tag_filter[1]))

(***************************************************************************)
(* C19: for every limit n >= 0, MemoryService.list_memories(limit=n)       *)
(* returns at most n memories: the first n of the list that the same call  *)
(* without a limit returns.                                                *)
(***************************************************************************)
C19_LimitTakesFirstN ==
    \A p \in Processes :
        (local[p].op = "list_memories" /\ local[p].outcome = "returned"
            /\ local[p].limit # None) =>
            LET n == local[p].limit[1]
                unlimited == list_memories(StoredMemories(local[p].before), None,
                                           local[p].tag_filter)
            IN /\ Len(local[p].result) <= n
               /\ local[p].result = SubSeq(unlimited, 1, Min(n, Len(unlimited)))

(***************************************************************************)
(* C20: a rejected service operation writes nothing.  add_memory with an   *)
(* empty or whitespace-only location or description ends with a ValueError *)
(* and process_memory_tags with an id that no stored memory has returns    *)
(* None; in both cases it takes no step of a save and memories.json and    *)
(* the backups are exactly as at the call.                                 *)
(***************************************************************************)
C20_RejectedWritesNothing ==
    \A p \in Processes :
        /\ (local[p].op = "add_memory"
               /\ (Blank(local[p].location) \/ Blank(local[p].description))) =>
               /\ local[p].pc = "idle"
               /\ local[p].outcome = "ValueError"
               /\ files = local[p].before
        /\ (local[p].op = "process_memory_tags"
               /\ \A i \in 1..Len(StoredMemories(local[p].before)) :
                     StoredMemories(local[p].before)[i].id # local[p].memory_id) =>
               /\ local[p].pc = "idle"
               /\ local[p].outcome = "returned"
               /\ local[p].result = None
               /\ files = local[p].before

\* a whitespace-only description rejected while a file and a backup exist
C20_Witness ==
    /\ local["process1"].op = "add_memory"
    /\ local["process1"].outcome = "ValueError"
    /\ local["process1"].location = "Paris"
    /\ local["process1"].description = " \t"
    /\ FileExists(files, "memories.json")
    /\ BackupPaths(files) # {}

\* process_memory_tags of an unknown id returned while a file and a backup exist
C20_WitnessUnknownId ==
    /\ local["process1"].op = "process_memory_tags"
    /\ local["process1"].memory_id = "nosuch"
    /\ local["process1"].outcome = "returned"
    /\ BackupPaths(files) # {}

(***************************************************************************)
(* C21: a filter is used only when every name in it is a category of the   *)
(* taxonomy; a call whose filter holds a name that is no category returns  *)
(* what the call without a filter returns: all categories are scanned, in  *)
(* declaration order.                                                      *)
(***************************************************************************)
C21_UnknownNameScansAll ==
    (op = "extract_tags" /\ filter # None
        /\ ~(SeqToSet(filter[1]) \subseteq SeqToSet(categories.keys))) =>
        tags = extract_tags(categories, description, None)

\* the rank of a keyword among the categories a filter names
FilteredRank(keyword, names) ==
    LET eligible == IF DeclaringCategories(keyword) \cap names # {}
                    THEN DeclaringCategories(keyword) \cap names
                    ELSE DeclaringCategories(keyword)
        first == CHOOSE i \in 1..Len(categories.keys) :
                    /\ categories.keys[i] \in eligible
                    /\ \A j \in 1..(i - 1) : categories.keys[j] \notin eligible
    IN <<first, IndexOf(categories.items[categories.keys[first]], keyword)>>

(***************************************************************************)
(* C22: the tags of a filtered extract_tags are listed by taxonomy         *)
(* declaration order of their categories (among those the filter names),   *)
(* then by place in the category, whatever the order in which the filter   *)
(* lists the categories.                                                   *)
(***************************************************************************)
C22_FilteredDeclarationOrder ==
    (op = "extract_tags" /\ filter # None) =>
        \A i, j \in 1..Len(tags) :
            i < j <=> RankBefore(FilteredRank(tags[i], SeqToSet(filter[1])),
                                 FilteredRank(tags[j], SeqToSet(filter[1])))

(***************************************************************************)
(* C23: a keyword of several words is tagged iff its exact word sequence   *)
(* stands in the normalized text; no plural or verb form of it is tested.  *)
(* 'tried street food' gives 'street food', 'tried street foods' does not. *)
(***************************************************************************)
C23_MultiWordExactOnly ==
    (op = "extract_tags" /\ filter = None) =>
        LET stretches == Stretches(preprocess_text(description))
        IN /\ \A k \in AllKeywords :
                ~IsSingleWord(k) => (k \in SeqToSet(tags) <=> WholeWordIn(k, stretches))
           /\ description = "tried street food" => "street food" \in SeqToSet(tags)
           /\ description = "tried street foods" => "street food" \notin SeqToSet(tags)

\* the plural of the last word stands in the text and nothing is tagged
C23_Witness ==
    /\ op = "extract_tags"
    /\ filter = None
    /\ description = "tried street foods"
    /\ tags = <<>>

\* the keyword's words stand in the text separated by punctuation and a tab
C23_WitnessTagged ==
    /\ op = "extract_tags"
    /\ filter = None
    /\ description = "Street,\tfood and a check-in"
    /\ "street food" \in SeqToSet(tags)

(***************************************************************************)
(* C26: every keyword the taxonomy declares, of one word, of several words *)
(* or with a hyphen, is reachable by its own text: extract_tags(k)         *)
(* contains k.                                                             *)
(***************************************************************************)
C26_KeywordReachesItself ==
    (op = "extract_tags" /\ filter = None /\ description \in AllKeywords) =>
        description \in SeqToSet(tags)

(***************************************************************************)
(* C27: per category the two entry points agree: for every category c the  *)
(* list extract_tags_by_category(d)[c], empty when c is absent, is the     *)
(* list extract_tags(d, categories=[c]), same tags in the same order.      *)
(***************************************************************************)
C27_EntryPointsAgree ==
    op = "extract_tags_by_category" =>
        \A c \in SeqToSet(categories.keys) :
            (IF DictHas(categorized, c) THEN categorized.items[c] ELSE <<>>)
                = extract_tags(categories, description, << <<c>> >>)

\* the place of the first memory with the id in the list
PlaceOf(memory_list, memory_id) ==
    CHOOSE i \in 1..Len(memory_list) :
        /\ memory_list[i].id = memory_id
        /\ \A j \in 1..(i - 1) : memory_list[j].id # memory_id

(***************************************************************************)
(* C24: when process_memory_tags(id) has returned a memory, the stored     *)
(* memory with that id has its former tags in their former order, followed *)
(* by the tags extracted from its description that it did not have, in     *)
(* extraction order and without duplicates; nothing else of it changed,    *)
(* every other stored memory is as before, and so is the number of stored  *)
(* memories.                                                               *)
(***************************************************************************)
C24_ReprocessKeepsAndAppends ==
    \A p \in Processes :
        (local[p].op = "process_memory_tags" /\ local[p].pc = "idle"
            /\ local[p].outcome = "returned" /\ local[p].result # None) =>
            LET previous == StoredMemories(local[p].before)
                stored == StoredMemories(files)
                at == PlaceOf(previous, local[p].memory_id)
                old == previous[at].tags
                new == stored[at].tags
                extracted == extract_tags(get_tag_categories, previous[at].description, None)
            IN /\ Len(stored) = Len(previous)
               /\ \A i \in 1..Len(previous) : i # at => stored[i] = previous[i]
               /\ stored[at] = [previous[at] EXCEPT !.tags = new]
               /\ Len(new) >= Len(old)
               /\ SubSeq(new, 1, Len(old)) = old
               /\ SubSeq(new, Len(old) + 1, Len(new))
                     = SelectSeq(extracted, LAMBDA t : t \notin SeqToSet(old))
               /\ NoDuplicates(new)
               /\ local[p].result = <<stored[at]>>

\* the memory stored with 'gallery' and 'trip' gained 'art', another memory is stored
C24_Witness ==
    /\ local["process1"].op = "process_memory_tags"
    /\ local["process1"].pc = "idle"
    /\ local["process1"].outcome = "returned"
    /\ local["process1"].memory_id = "c"
    /\ Len(StoredMemories(files)) = 2
    /\ \E i \in 1..2 :
          /\ StoredMemories(files)[i].tags = <<"gallery", "trip", "art">>
          /\ StoredMemories(local["process1"].before)[i].tags = <<"gallery", "trip">>

C25_WitnessBoth ==
    /\ local["process1"].op = "process_all_untagged_memories"
    /\ local["process1"].outcome = "returned"
    /\ local["process1"].result = <<2>>
    /\ \E i \in 1..2 : StoredMemories(files)[i].tags = <<"gallery", "trip", "art">>

\* the ids create_memory_id gives to the memories added through the service
ServiceIds == {"id" \o DigitChars[n + 1] : n \in 1..9}

\* process p begins process_memory_tags on a stored memory in this step
BeginsReprocessing(p) ==
    /\ local[p].pc = "idle"
    /\ local'[p].op = "process_memory_tags"
    /\ local'[p].pc = "create_backup"

(***************************************************************************)
(* C29: re-processing is idempotent.  A process_memory_tags call that      *)
(* begins right after a process_memory_tags call for the same id has       *)
(* returned, and every process_memory_tags call for a memory that was      *)
(* added through MemoryService.add_memory, hands to save_memories the      *)
(* memories as they are stored: the memory's tag list does not change.     *)
(***************************************************************************)
C29_ReprocessIdempotent ==
    [][\A p \in Processes :
          (/\ BeginsReprocessing(p)
           /\ \/ /\ local[p].op = "process_memory_tags"
                 /\ local[p].outcome = "returned"
                 /\ local[p].result # None
                 /\ local'[p].memory_id = local[p].memory_id
              \/ local'[p].memory_id \in ServiceIds) =>
              /\ local'[p].collection[1].memories = StoredMemories(files)
              /\ local'[p].memory[1].tags
                    = StoredMemories(files)[PlaceOf(StoredMemories(files),
                                                    local'[p].memory_id)].tags]_vars

\* a second call for the memory stored with 'gallery' and 'trip' has returned: the
\* memory had its three tags at the call and has them now
C29_Witness ==
    /\ local["process1"].op = "process_memory_tags"
    /\ local["process1"].pc = "idle"
    /\ local["process1"].outcome = "returned"
    /\ local["process1"].memory_id = "c"
    /\ StoredMemories(local["process1"].before) = StoredMemories(files)
    /\ \E i \in 1..Len(StoredMemories(files)) :
          StoredMemories(files)[i].tags = <<"gallery", "trip", "art">>

\* a call for a memory added through the service with manual tags has returned
C29_WitnessAdded ==
    /\ local["process1"].op = "process_memory_tags"
    /\ local["process1"].outcome = "returned"
    /\ local["process1"].memory_id = "id1"
    /\ local["process1"].result # None
    /\ local["process1"].result[1].tags = <<"trip", "wine", "art">>

(***************************************************************************)
(* C30: whatever add_memory, process_memory_tags and                       *)
(* process_all_untagged_memories operations came before, the metadata in   *)
(* memories.json has total_memories equal to the number of memories in the *)
(* same file.                                                              *)
(***************************************************************************)
C30_TotalMemoriesIsCount ==
    FileExists(files, "memories.json") =>
        /\ files["memories.json"].content # <<>>
        /\ files["memories.json"].content[1].metadata.total_memories
              = Len(files["memories.json"].content[1].memories)

\* two memories in the file, written by the last save of a re-processing pass
C30_Witness ==
    /\ local["process1"].op = "process_all_untagged_memories"
    /\ local["process1"].outcome = "returned"
    /\ local["process1"].result = <<2>>
    /\ files["memories.json"].content[1].metadata.total_memories = 2
    /\ Len(files["memories.json"].content[1].memories) = 2

(***************************************************************************)
(* Two processes on one storage directory.                                 *)
(***************************************************************************)
\* the last add_memory call of process p has returned
AddReturned(p) ==
    /\ local[p].pc = "idle"
    /\ local[p].op = "storage.add_memory"
    /\ local[p].outcome = "returned"

\* C28: no update is lost under concurrent use of one storage directory: once the
\* add_memory calls of both processes have returned, however their load, backup,
\* temporary-file write and rename steps interleaved, memories.json holds the
\* memory of each of them.
C28_NoLostUpdate ==
    (\A p \in Processes : AddReturned(p)) =>
        /\ load_memories(files, now) # <<>>
        /\ \A p \in Processes :
              \E i \in 1..Len(StoredMemories(files)) :
                  StoredMemories(files)[i].id = local[p].memory_id
====
